---- MODULE Spec2Model ----
(***************************************************************************)
(* HybrisClient (hybris-mcp): the HAC session cache, the login protocol of *)
(* ensureHacSession and the authenticated pipeline hacRequest.             *)
(*                                                                         *)
(* Strings that the code inspects (Set-Cookie values, Location headers,    *)
(* content types, bodies) are sequences of lexical tokens, so that split,  *)
(* includes and join are computed and not assumed.  Every action is one    *)
(* run of JavaScript between two suspension points: it starts when an      *)
(* awaited fetch settles and ends at the next await.                       *)
(***************************************************************************)
EXTENDS Integers, Sequences, FiniteSets, TLC

\* Total number of logical calls (external invocations of hacRequest) started.
MaxStarted == 2

\* Length of the cookie lists that mergeCookies is applied to.
MaxCookies == 2
MaxTags == 2

\* The concurrent callers of the one HybrisClient instance.
Calls == {"A", "B"}

REQUEST_TIMEOUT_MS == 30000

----------------------------------------------------------------------------
(* String helpers at token granularity *)

\* String.prototype.includes
Includes(s, t) == \E i \in 1..Len(s) : s[i] = t

\* s.split(sep)[0]: what precedes the first separator (all of s when none)
SplitFirst(s, sep) ==
  LET idx == {i \in 1..Len(s) : s[i] = sep}
  IN  IF idx = {} THEN s
      ELSE SubSeq(s, 1, (CHOOSE i \in idx : \A j \in idx : i <= j) - 1)

\* Array.prototype.join(sep) of a list of token sequences
RECURSIVE Join(_, _)
Join(parts, sep) ==
  IF parts = <<>> THEN <<>>
  ELSE IF Len(parts) = 1 THEN parts[1]
  ELSE parts[1] \o <<sep>> \o Join(Tail(parts), sep)

\* concatenation of the tokens of s into one string
RECURSIVE Concat(_)
Concat(s) == IF s = <<>> THEN "" ELSE Head(s) \o Concat(Tail(s))

----------------------------------------------------------------------------
(* Cookies *)

\* const [name] = cookie.split('=')
CookieName(cookie) == SplitFirst(cookie, "=")

\* a name that is already bound keeps its first cookie
MapSetKeepFirst(m, cookie) ==
  IF \E i \in 1..Len(m) : CookieName(m[i]) = CookieName(cookie)
  THEN m
  ELSE Append(m, cookie)

\* cookieMap.set(name, cookie): a Map keeps the position of an existing key
MapSet(m, cookie) ==
  IF \E i \in 1..Len(m) : CookieName(m[i]) = CookieName(cookie)
  THEN [i \in 1..Len(m) |->
          IF CookieName(m[i]) = CookieName(cookie) THEN cookie ELSE m[i]]
  ELSE Append(m, cookie)

RECURSIVE MapSetAll(_, _)
MapSetAll(m, cookieList) ==
  IF cookieList = <<>> THEN m
  ELSE MapSetAll(MapSet(m, Head(cookieList)), Tail(cookieList))

mergeCookies(existing, incoming) == MapSetAll(<<>>, existing \o incoming)

\* the name=value part of every Set-Cookie header, empty parts dropped
RECURSIVE extractCookies(_)
extractCookies(setCookieHeaders) ==
  IF setCookieHeaders = <<>> THEN <<>>
  ELSE LET cookiePart == SplitFirst(Head(setCookieHeaders), ";")
       IN  (IF cookiePart # <<>> THEN <<cookiePart>> ELSE <<>>)
             \o extractCookies(Tail(setCookieHeaders))

\* cookies.join('; ')
CookieHeader(cookies) == Join(cookies, "; ")

----------------------------------------------------------------------------
(* Anti-forgery token scraping *)

Quotes == {"\"", "'"}
NoToken == ""

\* ["']([^"']+)["'] starting at position p: the end of the captured run
\* (the regex is greedy, and the run cannot cross a quote)
CaptureEnd(html, p) ==
  IF p + 1 <= Len(html) /\ html[p] \in Quotes /\ html[p + 1] \notin Quotes
  THEN LET stops == {k \in (p + 1)..Len(html) : html[k] \in Quotes}
       IN  IF stops = {} THEN 0
           ELSE (CHOOSE k \in stops : \A j \in stops : k <= j) - 1
  ELSE 0

\* name=["']_csrf["'] at position i
NameAt(html, i) ==
  /\ i + 3 <= Len(html)
  /\ html[i] = "name="
  /\ html[i + 1] \in Quotes
  /\ html[i + 2] = "_csrf"
  /\ html[i + 3] \in Quotes

\* the positions of name=["']_csrf["'], and of ATTR=["']([^"']+)["']
NamePositions(html) == {i \in 1..Len(html) : NameAt(html, i)}
AttrPositions(html, attr) ==
  {j \in 1..Len(html) : html[j] = attr /\ CaptureEnd(html, j + 1) # 0}

\* /name=["']_csrf["'][^>]*ATTR=["']([^"']+)["']/ : the matches <<i, j>>,
\* i the start of name=, j the position of ATTR
NameFirstMatches(html, attr) ==
  {m \in NamePositions(html) \X AttrPositions(html, attr) :
     /\ m[2] >= m[1] + 4
     /\ \A k \in (m[1] + 4)..(m[2] - 1) : html[k] # ">"}

\* /ATTR=["']([^"']+)["'][^>]*name=["']_csrf["']/ : the matches <<j, i>>
AttrFirstMatches(html, attr) ==
  {m \in AttrPositions(html, attr) \X NamePositions(html) :
     /\ m[2] >= CaptureEnd(html, m[1] + 1) + 2
     /\ \A k \in (CaptureEnd(html, m[1] + 1) + 2)..(m[2] - 1) : html[k] # ">"}

\* the match a backtracking engine reports: leftmost start, then the longest
\* [^>]* that lets the rest match
FirstMatch(ms) ==
  CHOOSE m \in ms :
    \A n \in ms : m[1] < n[1] \/ (m[1] = n[1] /\ m[2] >= n[2])

Captured(html, attrPos) ==
  Concat(SubSeq(html, attrPos + 2, CaptureEnd(html, attrPos + 1)))

\* only the patterns with name= before the token attribute are tried
extractCsrfTokenNameFirst(html) ==
  IF NameFirstMatches(html, "content=") # {}
    THEN Captured(html, FirstMatch(NameFirstMatches(html, "content="))[2])
  ELSE IF NameFirstMatches(html, "value=") # {}
    THEN Captured(html, FirstMatch(NameFirstMatches(html, "value="))[2])
  ELSE NoToken

extractCsrfToken(html) ==
  IF NameFirstMatches(html, "content=") # {}
    THEN Captured(html, FirstMatch(NameFirstMatches(html, "content="))[2])
  ELSE IF AttrFirstMatches(html, "content=") # {}
    THEN Captured(html, FirstMatch(AttrFirstMatches(html, "content="))[1])
  ELSE IF NameFirstMatches(html, "value=") # {}
    THEN Captured(html, FirstMatch(NameFirstMatches(html, "value="))[2])
  ELSE IF AttrFirstMatches(html, "value=") # {}
    THEN Captured(html, FirstMatch(AttrFirstMatches(html, "value="))[1])
  ELSE NoToken

----------------------------------------------------------------------------
(* What the backend can answer *)

LocLogin      == <<"/hac/", "login", ".jsp">>
LocLoginError == <<"/hac/", "login", ".jsp", "?", "login_", "error", "=1">>
LocHome       == <<"/hac/">>
NoLocation    == <<>>   \* header absent (null) or empty: both are falsy
Locations     == {NoLocation, LocLogin, LocLoginError, LocHome}

SetCookieAbc   == <<"JSESSIONID", "=", "abc", ";", " Path=/hac">>
SetCookieDef   == <<"JSESSIONID", "=", "def", ";", " Path=/hac", ";", " HttpOnly">>
SetCookieRoute == <<"ROUTE", "=", "r1">>
SetCookieChoices ==
  {<<>>, <<SetCookieAbc>>, <<SetCookieDef>>, <<SetCookieDef, SetCookieRoute>>}
\* one response that sets the same cookie name twice
SetCookieTwice == <<SetCookieDef, SetCookieAbc>>

LoginPageHtml ==
  <<"<html", ">", "<input", " ", "type=", "\"", "hidden", "\"", " ",
    "name=", "\"", "_csrf", "\"", " ", "value=", "\"", "tok1", "\"", ">">>
HomePageHtml ==
  <<"<html", ">", "<meta", " ", "name=", "\"", "_csrf", "\"", " ",
    "content=", "\"", "tok2", "\"", ">">>
ErrorPageHtml == <<"<html", ">", "<body", ">", "Maintenance">>
JsonBody      == <<"{", "\"ok\"", ":", "true", "}">>
TextBody      == <<"plain", " ", "text">>

LoginBodies     == {LoginPageHtml, HomePageHtml, ErrorPageHtml}
ProtectedBodies == {JsonBody, LoginPageHtml, TextBody}

CtJson == <<"application/json", ";", "charset=UTF-8">>
CtHtml == <<"text/html", ";", "charset=UTF-8">>
CtText == <<"text/plain">>
NoContentType == <<>>
ContentTypes == {CtJson, CtHtml, CtText, NoContentType}

LoginStatuses     == {200, 302, 303}
ProtectedStatuses == {200, 302, 303, 500}

\* a Response of one of the login requests
LoginResponses ==
  [status : LoginStatuses, location : Locations,
   setCookie : SetCookieChoices, body : LoginBodies]

\* a Response of the protected request
ProtectedResponses ==
  [status : ProtectedStatuses, location : Locations,
   contentType : ContentTypes, body : ProtectedBodies]

\* extractCsrfToken and extractCookies of what the backend can answer with,
\* computed once
ScrapedToken == [html \in LoginBodies |-> extractCsrfToken(html)]
ResponseCookies ==
  [setCookie \in SetCookieChoices \cup {SetCookieTwice} |->
     extractCookies(setCookie)]

\* The name=value parts that occur, one of them with '=' in its value, and
\* the cookie lists of up to MaxCookies of them.
Cookies ==
  { <<"JSESSIONID", "=", "abc">>, <<"JSESSIONID", "=", "def">>,
    <<"ROUTE", "=", "r1">>, <<"LANG", "=", "a", "=", "b">> }
CookieLists == UNION {[1..n -> Cookies] : n \in 0..MaxCookies}

\* mergeCookies of these lists, computed once
MergedCookies ==
  [existing \in CookieLists, incoming \in CookieLists |->
     mergeCookies(existing, incoming)]

\* response.ok
Ok(status) == status >= 200 /\ status <= 299

----------------------------------------------------------------------------
(* The request options of the callers of hacRequest *)

BaseUrl == <<"https://host:9002">>

\* the URL of a Location: absolute as it is, relative under baseUrl
UrlOf(location) ==
  IF location # <<>> /\ Head(location) = "http" THEN location
  ELSE BaseUrl \o location

NoHeaders == [h \in {} |-> <<>>]
FormHeaders ==
  [h \in {"Content-Type"} |-> <<"application/x-www-form-urlencoded">>]

\* body.kind: "none", or "form" for a URLSearchParams whose _csrf field is
\* body.csrf (NoToken: the field is not set)
NoBody == [kind |-> "none", csrf |-> NoToken]
NoOptions == [method |-> "GET", headers |-> NoHeaders, body |-> NoBody]
CallOptions ==
  { [method |-> "GET",  headers |-> NoHeaders,   body |-> NoBody],
    [method |-> "POST", headers |-> FormHeaders,
     body |-> [kind |-> "form", csrf |-> NoToken]] }

\* What hacRequest accepts as options (a RequestInit): the options of the
\* client's own operations (a form POST with a Content-Type header), and
\* options that carry a _csrf field, another method, another body kind, or
\* headers of their own, among them the two that hacRequest sets itself.
CallerToken  == "stale"
CallerCookie == <<"JSESSIONID", "=", "mine">>
AcceptJson   == <<"application/json">>
HeadersOf(names) ==
  [h \in names |->
     CASE h = "Content-Type" -> <<"application/x-www-form-urlencoded">>
       [] h = "Accept"       -> AcceptJson
       [] h = "X-CSRF-TOKEN" -> <<CallerToken>>
       [] h = "Cookie"       -> CallerCookie]
CallerOptions ==
  { [method |-> "POST", headers |-> HeadersOf({"Content-Type"}),
     body |-> [kind |-> "form", csrf |-> NoToken]],
    [method |-> "POST", headers |-> HeadersOf({"Content-Type", "Accept"}),
     body |-> [kind |-> "form", csrf |-> CallerToken]],
    [method |-> "POST", headers |-> HeadersOf({"Accept"}),
     body |-> [kind |-> "text", csrf |-> CallerToken]],
    [method |-> "PUT", headers |-> HeadersOf({"Content-Type"}),
     body |-> [kind |-> "form", csrf |-> CallerToken]],
    [method |-> "GET", headers |-> HeadersOf({"Accept"}), body |-> NoBody],
    [method |-> "POST", headers |-> HeadersOf({"Content-Type", "X-CSRF-TOKEN"}),
     body |-> [kind |-> "form", csrf |-> NoToken]],
    [method |-> "GET", headers |-> HeadersOf({"Cookie"}), body |-> NoBody] }

----------------------------------------------------------------------------
(* Requests *)

HacPath == <<"/hac">>   \* config.hacPath, the default

\* config.username, config.password
Username == "admin"
Password == "nimda"

RootGet ==
  [kind |-> "root", method |-> "GET", url |-> BaseUrl \o HacPath \o <<"/">>,
   headers |-> NoHeaders, body |-> NoBody, redirect |-> "manual"]

LoginPageGet(location, cookies) ==
  [kind |-> "loginPage", method |-> "GET", url |-> UrlOf(location),
   headers |-> [h \in {"Cookie"} |-> CookieHeader(cookies)], body |-> NoBody,
   redirect |-> "manual"]

\* the credential POST goes out without the cookies collected so far
LoginPostWithoutCookies(cookies, csrfToken) ==
  [kind |-> "post", method |-> "POST",
   url |-> BaseUrl \o HacPath \o <<"/j_spring_security_check">>,
   headers |-> [h \in {"Content-Type", "Cookie"} |->
                  IF h = "Cookie" THEN <<>>
                  ELSE <<"application/x-www-form-urlencoded">>],
   body |-> [kind |-> "form", csrf |-> csrfToken,
             j_username |-> Username, j_password |-> Password],
   redirect |-> "manual"]

\* ensureHacSession, lines 250-265: the credential POST
LoginPost(cookies, csrfToken) ==
  [kind |-> "post", method |-> "POST",
   url |-> BaseUrl \o HacPath \o <<"/j_spring_security_check">>,
   headers |-> [h \in {"Content-Type", "Cookie"} |->
                  IF h = "Cookie" THEN CookieHeader(cookies)
                  ELSE <<"application/x-www-form-urlencoded">>],
   body |-> [kind |-> "form", csrf |-> csrfToken,
             j_username |-> Username, j_password |-> Password],
   redirect |-> "manual"]

HomeGet(location, cookies) ==
  [kind |-> "home", method |-> "GET", url |-> UrlOf(location),
   headers |-> [h \in {"Cookie"} |-> CookieHeader(cookies)], body |-> NoBody,
   redirect |-> "manual"]

\* { Cookie, X-CSRF-TOKEN, ...options.headers }
DecorateHeaders(session, options) ==
  LET own == [h \in {"Cookie", "X-CSRF-TOKEN"} |->
                IF h = "Cookie" THEN CookieHeader(session.cookies)
                ELSE <<session.csrfToken>>]
  IN  [h \in DOMAIN own \cup DOMAIN options.headers |->
         IF h \in DOMAIN options.headers THEN options.headers[h] ELSE own[h]]

\* a _csrf field that the caller has set is left as it is
DecorateBodyKeepsCallerValue(session, options) ==
  IF options.method = "POST" /\ options.body.kind = "form"
       /\ options.body.csrf = NoToken
  THEN [options.body EXCEPT !.csrf = session.csrfToken]
  ELSE options.body

\* body.set('_csrf', session.csrfToken) for a POST with URLSearchParams
DecorateBody(session, options) ==
  IF options.method = "POST" /\ options.body.kind = "form"
  THEN [options.body EXCEPT !.csrf = session.csrfToken]
  ELSE options.body

ProtectedRequest(session, options) ==
  [kind |-> "protected", method |-> options.method,
   url |-> BaseUrl \o HacPath \o <<"/console">>,
   headers |-> DecorateHeaders(session, options),
   body |-> DecorateBody(session, options), redirect |-> "manual"]

----------------------------------------------------------------------------
(* Outcomes of a call *)

ErrLoginPageToken == "Failed to extract CSRF token from HAC login page"
ErrLoginFailed    == "HAC login failed - check credentials"
ErrHomeToken      == "Failed to extract CSRF token after HAC login"
ErrSessionExpired == "HAC session expired and re-authentication failed"
ErrApi            == "HAC API error"
ErrHtml           == "Unexpected HTML response (possible auth failure)"
ErrTimeout        == "Request timeout after"
ErrNetwork        == "fetch failed"
ErrJson           == "Unexpected token in JSON"

Failure(message, status, ms, data) ==
  [kind |-> "error", message |-> message, status |-> status, ms |-> ms,
   data |-> data]
Success(kind, data) ==
  [kind |-> kind, message |-> "", status |-> 0, ms |-> 0, data |-> data]

\* text.substring(0, 200), a token counted as one character
HtmlPrefixLen == 200
Substring(text, n) == SubSeq(text, 1, IF Len(text) < n THEN Len(text) ELSE n)

\* response.json(): the members of a one-level object (keys and values in
\* turn), JsonNull for the text null, a SyntaxError otherwise
JsonNull == <<"null">>
IsJson(body) ==
  \/ body = <<"null">>
  \/ Len(body) >= 2 /\ body[1] = "{" /\ body[Len(body)] = "}"
JsonValue(body) ==
  IF body = <<"null">> THEN JsonNull
  ELSE
  LET inner == SubSeq(body, 2, Len(body) - 1)
      keep  == {i \in 1..Len(inner) : inner[i] \notin {":", ","}}
      nth(k) == CHOOSE i \in keep : Cardinality({j \in keep : j <= i}) = k
  IN  [k \in 1..Cardinality(keep) |-> inner[nth(k)]]

\* the status is not looked at: a failure response is decoded like a success
DecodeStatusUnchecked(resp) ==
  IF Includes(resp.contentType, "application/json")
    THEN IF IsJson(resp.body) THEN Success("json", JsonValue(resp.body))
         ELSE Failure(ErrJson, 0, 0, <<>>)
  ELSE IF Includes(resp.contentType, "text/html") /\ Includes(resp.body, "<html")
    THEN Failure(ErrHtml, 0, 0, Substring(resp.body, HtmlPrefixLen))
  ELSE Success("text", resp.body)

\* a markup page is not recognised: its body is returned as text
DecodeWithoutHtmlCheck(resp) ==
  IF ~Ok(resp.status) /\ resp.status # 302
    THEN Failure(ErrApi, resp.status, 0, resp.body)
  ELSE IF Includes(resp.contentType, "application/json")
    THEN IF IsJson(resp.body) THEN Success("json", JsonValue(resp.body))
         ELSE Failure(ErrJson, 0, 0, <<>>)
  ELSE Success("text", resp.body)

\* hacRequest, lines 339-355: the outcome for a response that is not a login
\* redirect
Decode(resp) ==
  IF ~Ok(resp.status) /\ resp.status # 302
    THEN Failure(ErrApi, resp.status, 0, resp.body)
  ELSE IF Includes(resp.contentType, "application/json")
    THEN IF IsJson(resp.body) THEN Success("json", JsonValue(resp.body))
         ELSE Failure(ErrJson, 0, 0, <<>>)
  ELSE IF Includes(resp.contentType, "text/html") /\ Includes(resp.body, "<html")
    THEN Failure(ErrHtml, 0, 0, Substring(resp.body, HtmlPrefixLen))
  ELSE Success("text", resp.body)

\* every 302 is taken for a login redirect, whatever its Location
IsLoginRedirectAnyLocation(resp) == resp.status = 302

\* hacRequest, line 331: response.status === 302 && location?.includes('login')
IsLoginRedirect(resp) ==
  resp.status = 302 /\ resp.location # NoLocation /\ Includes(resp.location, "login")

\* the retry bound off by one: a second retry is allowed
RetryExhaustedLate(retryCount) == retryCount >= 2

\* hacRequest, line 332: retryCount >= 1
RetryExhausted(retryCount) == retryCount >= 1

\* the error indicator of the Location is not looked at
LoginAcceptedAnyLocation(resp) ==
  ~(resp.status # 302 \/ resp.location = NoLocation)

\* ensureHacSession, line 271: the credential POST was accepted
LoginAccepted(resp) ==
  ~(resp.status # 302 \/ resp.location = NoLocation
      \/ Includes(resp.location, "error"))

----------------------------------------------------------------------------
(* State *)

VARIABLES
  hacSession,  \* this.hacSession: <<>> for null, <<session>> otherwise
  calls,       \* per caller: the position and the locals of its hacRequest
  started,     \* number of logical calls started so far
  probe,       \* the arguments and the result of a helper applied on its own
  api,         \* the position and the locals of a call of the read API
  tool         \* the tool call that the server is handling or has answered

vars == <<hacSession, calls, started, probe, api, tool>>

\* no helper is applied on its own while the client serves calls
NoProbe == [fn |-> "none"]

\* The locals of a read-API operation.  pc is "awaitApi" while the fetch of
\* request is pending; op is the operation that called request; outcome is
\* what request returned or threw, result what the operation returned or
\* threw.
IdleApi ==
  [pc |-> "idle", op |-> "none", sent |-> <<>>, outcome |-> <<>>,
   result |-> <<>>]

\* The tool call of the CallToolRequestSchema handler: pc is "idle" before
\* the first call, "running" while the operation is awaited, "returned" when
\* the handler has answered with response.
\* Bookkeeping: callNo (the value of started when the handler was invoked:
\* the operation's hacRequest has begun once started is larger), previous
\* (isError of the answer before this one).
IdleTool ==
  [pc |-> "idle", name |-> "", response |-> <<>>, callNo |-> 0,
   previous |-> <<>>]

\* The locals of one logical call.  pc is the await the call is suspended at:
\*   awaitRoot, awaitLoginPage, awaitPost, awaitHome  (inside ensureHacSession)
\*   ensured        (await this.ensureHacSession() is about to resume)
\*   awaitProtected (the protected fetch)
\* csrfToken is the pre-authentication token of the running login; it stays
\* readable until the protected request is sent.
\* timer is the timeout of fetchWithTimeout for the request in flight:
\* "armed" from setTimeout (line 111) until clearTimeout (line 123), which
\* runs when fetch settles, that is when the response headers are there;
\* "cleared" while the body of that response is still being read.
\* Bookkeeping, not read by the code: sent (the request in flight), hit
\* (the call found a cached Session when it started), nHttp, nLogin,
\* nProtected, nInvalidate (the requests, login runs, protected requests and
\* cache clearings of this call so far), overdue (a round trip of this call
\* has lasted longer than REQUEST_TIMEOUT_MS).
IdleCall ==
  [pc |-> "idle", options |-> NoOptions, retryCount |-> 0, session |-> <<>>,
   cookies |-> <<>>, csrfToken |-> NoToken, result |-> <<>>,
   sent |-> <<>>, hit |-> FALSE, nHttp |-> 0, nLogin |-> 0, nProtected |-> 0,
   nInvalidate |-> 0, timer |-> "off", overdue |-> FALSE]

Init ==
  /\ hacSession = <<>>
  /\ calls = [c \in Calls |-> IdleCall]
  /\ started = 0
  /\ probe = NoProbe
  /\ api = IdleApi
  /\ tool = IdleTool

\* a throw that leaves hacRequest: the call is over, its locals are gone
Throw(rec, failure) ==
  [rec EXCEPT !.pc = "done", !.result = <<failure>>, !.session = <<>>,
              !.cookies = <<>>, !.csrfToken = NoToken, !.sent = <<>>,
              !.timer = "off"]

Return(rec, value) ==
  [rec EXCEPT !.pc = "done", !.result = <<value>>, !.session = <<>>,
              !.sent = <<>>, !.timer = "off"]

Send(rec, request) ==
  [rec EXCEPT !.sent = <<request>>, !.nHttp = @ + 1, !.timer = "armed"]

\* the cache check is missing: every ensureHacSession logs in
BeginEnsureAlwaysLogin(rec, cache) ==
  [Send(rec, RootGet) EXCEPT !.pc = "awaitRoot", !.nLogin = @ + 1,
                             !.cookies = <<>>, !.csrfToken = NoToken]

\* ensureHacSession up to its first await, lines 211-222, for the cache value
\* it reads
BeginEnsure(rec, cache) ==
  IF cache # <<>>
  THEN [rec EXCEPT !.pc = "ensured", !.session = cache]
  ELSE [Send(rec, RootGet) EXCEPT !.pc = "awaitRoot", !.nLogin = @ + 1,
                                  !.cookies = <<>>, !.csrfToken = NoToken]

\* the missing token is not detected: the form is posted without it
SubmitLoginUnchecked(rec, cookies, loginPageHtml) ==
  [Send(rec, LoginPost(cookies, ScrapedToken[loginPageHtml])) EXCEPT
     !.pc = "awaitPost", !.cookies = cookies,
     !.csrfToken = ScrapedToken[loginPageHtml]]

\* ensureHacSession, lines 242-265: scrape the login page, post the credentials
SubmitLogin(rec, cookies, loginPageHtml) ==
  LET csrfToken == ScrapedToken[loginPageHtml]
  IN  IF csrfToken = NoToken
      THEN Throw(rec, Failure(ErrLoginPageToken, 0, 0, <<>>))
      ELSE [Send(rec, LoginPost(cookies, csrfToken)) EXCEPT
              !.pc = "awaitPost", !.cookies = cookies,
              !.csrfToken = csrfToken]

(* hacRequest is called by an operation of the client *)
StartCall(c, options) ==
  /\ calls[c].pc \in {"idle", "done"}
  /\ started < MaxStarted
  /\ started' = started + 1
  /\ calls' = [calls EXCEPT ![c] =
                 BeginEnsure([IdleCall EXCEPT !.options = options,
                                              !.hit = hacSession # <<>>],
                             hacSession)]
  /\ UNCHANGED <<hacSession, probe, api, tool>>

(* the GET of the HAC root settles, lines 219-240 *)
RootResponse(c, resp) ==
  /\ calls[c].pc = "awaitRoot"
  /\ LET rec == calls[c]
         cookies == ResponseCookies[resp.setCookie]
     IN  calls' = [calls EXCEPT ![c] =
           IF resp.status = 302 /\ resp.location # NoLocation
           THEN [Send(rec, LoginPageGet(resp.location, cookies)) EXCEPT
                   !.pc = "awaitLoginPage", !.cookies = cookies]
           ELSE SubmitLogin(rec, cookies, resp.body)]
  /\ UNCHANGED <<hacSession, started, probe, api, tool>>

\* a redirect answered by the redirect target is followed again
LoginPageResponseFollowsAgain(c, resp) ==
  /\ calls[c].pc = "awaitLoginPage"
  /\ LET rec == calls[c]
         cookies == MergedCookies[rec.cookies, ResponseCookies[resp.setCookie]]
     IN  calls' = [calls EXCEPT ![c] =
           IF resp.status = 302 /\ resp.location # NoLocation
           THEN [Send(rec, LoginPageGet(resp.location, cookies)) EXCEPT
                   !.cookies = cookies]
           ELSE SubmitLogin(rec, cookies, resp.body)]
  /\ UNCHANGED <<hacSession, started, probe, api, tool>>

(* the GET of the redirect target settles, lines 231-247 *)
LoginPageResponse(c, resp) ==
  /\ calls[c].pc = "awaitLoginPage"
  /\ LET rec == calls[c]
         cookies == MergedCookies[rec.cookies, ResponseCookies[resp.setCookie]]
     IN  calls' = [calls EXCEPT ![c] = SubmitLogin(rec, cookies, resp.body)]
  /\ UNCHANGED <<hacSession, started, probe, api, tool>>

\* a failure of the re-login is reported as the generic expiry
LoginFailureAsExpiry(rec) ==
  IF rec.retryCount >= 1 THEN Failure(ErrSessionExpired, 0, 0, <<>>)
  ELSE Failure(ErrLoginFailed, 0, 0, <<>>)

\* ensureHacSession, line 272: the error of a rejected credential POST
LoginFailure(rec) == Failure(ErrLoginFailed, 0, 0, <<>>)

\* the cookies set by the answer to the credential POST are not merged
PostResponseDropsCookies(c, resp) ==
  /\ calls[c].pc = "awaitPost"
  /\ LET rec == calls[c]
         cookies == rec.cookies
     IN  calls' = [calls EXCEPT ![c] =
           IF ~LoginAccepted(resp)
           THEN Throw(rec, LoginFailure(rec))
           ELSE [Send(rec, HomeGet(resp.location, cookies)) EXCEPT
                   !.pc = "awaitHome", !.cookies = cookies]]
  /\ UNCHANGED <<hacSession, started, probe, api, tool>>

(* the credential POST settles, lines 257-283 *)
PostResponse(c, resp) ==
  /\ calls[c].pc = "awaitPost"
  /\ LET rec == calls[c]
         cookies == MergedCookies[rec.cookies, ResponseCookies[resp.setCookie]]
     IN  calls' = [calls EXCEPT ![c] =
           IF ~LoginAccepted(resp)
           THEN Throw(rec, LoginFailure(rec))
           ELSE [Send(rec, HomeGet(resp.location, cookies)) EXCEPT
                   !.pc = "awaitHome", !.cookies = cookies]]
  /\ UNCHANGED <<hacSession, started, probe, api, tool>>

\* the token of the login form is stored instead of the landing page's
NewSessionPreToken(cookies, csrfToken, newCsrfToken) ==
  [cookies |-> cookies, csrfToken |-> csrfToken]

\* the Session that ensureHacSession builds, lines 294-297
NewSession(cookies, csrfToken, newCsrfToken) ==
  [cookies |-> cookies, csrfToken |-> newCsrfToken]

\* the Session is cached before the landing page was scraped
HomeResponseStoreEarly(c, resp) ==
  /\ calls[c].pc = "awaitHome"
  /\ LET rec == calls[c]
         cookies == MergedCookies[rec.cookies, ResponseCookies[resp.setCookie]]
         newCsrfToken == ScrapedToken[resp.body]
     IN  /\ hacSession' =
              <<NewSession(cookies, rec.csrfToken, newCsrfToken)>>
         /\ calls' = [calls EXCEPT ![c] =
              IF newCsrfToken = NoToken
              THEN Throw(rec, Failure(ErrHomeToken, 0, 0, <<>>))
              ELSE [rec EXCEPT !.pc = "ensured", !.session = hacSession',
                               !.cookies = <<>>, !.sent = <<>>,
                               !.timer = "off"]]
  /\ UNCHANGED <<started, probe, api, tool>>

\* a call that finishes its login while a Session is cached leaves the cache
\* alone
HomeResponseFirstWriter(c, resp) ==
  /\ calls[c].pc = "awaitHome"
  /\ LET rec == calls[c]
         cookies == MergedCookies[rec.cookies, ResponseCookies[resp.setCookie]]
         newCsrfToken == ScrapedToken[resp.body]
     IN  IF newCsrfToken = NoToken
         THEN /\ calls' = [calls EXCEPT ![c] =
                   Throw(rec, Failure(ErrHomeToken, 0, 0, <<>>))]
              /\ UNCHANGED hacSession
         ELSE /\ hacSession' =
                   IF hacSession # <<>> THEN hacSession
                   ELSE <<NewSession(cookies, rec.csrfToken, newCsrfToken)>>
              /\ calls' = [calls EXCEPT ![c] =
                   [rec EXCEPT !.pc = "ensured",
                               !.session = <<NewSession(cookies, rec.csrfToken,
                                                        newCsrfToken)>>,
                               !.cookies = <<>>, !.sent = <<>>,
                               !.timer = "off"]]
  /\ UNCHANGED <<started, probe, api, tool>>

\* a login that completes while a Session is cached writes its token into
\* that Session instead of replacing it
HomeResponseUpdatesToken(c, resp) ==
  /\ calls[c].pc = "awaitHome"
  /\ LET rec == calls[c]
         cookies == MergedCookies[rec.cookies, ResponseCookies[resp.setCookie]]
         newCsrfToken == ScrapedToken[resp.body]
     IN  IF newCsrfToken = NoToken
         THEN /\ calls' = [calls EXCEPT ![c] =
                   Throw(rec, Failure(ErrHomeToken, 0, 0, <<>>))]
              /\ UNCHANGED hacSession
         ELSE /\ hacSession' =
                   IF hacSession # <<>>
                   THEN <<[hacSession[1] EXCEPT !.csrfToken = newCsrfToken]>>
                   ELSE <<NewSession(cookies, rec.csrfToken, newCsrfToken)>>
              /\ calls' = [calls EXCEPT ![c] =
                   [rec EXCEPT !.pc = "ensured", !.session = hacSession',
                               !.cookies = <<>>, !.sent = <<>>,
                               !.timer = "off"]]
  /\ UNCHANGED <<started, probe, api, tool>>

\* the cookies of the landing page are appended to the list, not merged
HomeResponseAppendsCookies(c, resp) ==
  /\ calls[c].pc = "awaitHome"
  /\ LET rec == calls[c]
         cookies == rec.cookies \o ResponseCookies[resp.setCookie]
         newCsrfToken == ScrapedToken[resp.body]
     IN  IF newCsrfToken = NoToken
         THEN /\ calls' = [calls EXCEPT ![c] =
                   Throw(rec, Failure(ErrHomeToken, 0, 0, <<>>))]
              /\ UNCHANGED hacSession
         ELSE /\ hacSession' =
                   <<NewSession(cookies, rec.csrfToken, newCsrfToken)>>
              /\ calls' = [calls EXCEPT ![c] =
                   [rec EXCEPT !.pc = "ensured", !.session = hacSession',
                               !.cookies = <<>>, !.sent = <<>>,
                               !.timer = "off"]]
  /\ UNCHANGED <<started, probe, api, tool>>

(* the GET of the landing page settles, lines 277-300 *)
HomeResponse(c, resp) ==
  /\ calls[c].pc = "awaitHome"
  /\ LET rec == calls[c]
         cookies == MergedCookies[rec.cookies, ResponseCookies[resp.setCookie]]
         newCsrfToken == ScrapedToken[resp.body]
     IN  IF newCsrfToken = NoToken
         THEN /\ calls' = [calls EXCEPT ![c] =
                   Throw(rec, Failure(ErrHomeToken, 0, 0, <<>>))]
              /\ UNCHANGED hacSession
         ELSE /\ hacSession' =
                   <<NewSession(cookies, rec.csrfToken, newCsrfToken)>>
              /\ calls' = [calls EXCEPT ![c] =
                   [rec EXCEPT !.pc = "ensured", !.session = hacSession',
                               !.cookies = <<>>, !.sent = <<>>,
                               !.timer = "off"]]
  /\ UNCHANGED <<started, probe, api, tool>>

\* the request goes out as soon as the credentials were accepted, before
\* ensureHacSession has resolved to a Session
SendProtectedEarly(c) ==
  /\ calls[c].pc \in {"ensured", "awaitHome"}
  /\ LET rec == calls[c]
         session == IF rec.session # <<>> THEN rec.session[1]
                    ELSE [cookies |-> rec.cookies, csrfToken |-> rec.csrfToken]
     IN  calls' = [calls EXCEPT ![c] =
           [Send(rec, ProtectedRequest(session, rec.options)) EXCEPT
              !.pc = "awaitProtected", !.nProtected = @ + 1,
              !.csrfToken = NoToken, !.session = <<session>>,
              !.options.body = DecorateBody(session, rec.options)]]
  /\ UNCHANGED <<hacSession, started, probe, api, tool>>

\* the request is decorated from the cache as it is when the request goes
\* out, not from the Session that ensureHacSession returned to this call
SendProtectedFromCache(c) ==
  /\ calls[c].pc = "ensured"
  /\ LET rec == calls[c]
         session == IF hacSession # <<>> THEN hacSession[1]
                    ELSE [cookies |-> <<>>, csrfToken |-> NoToken]
     IN  calls' = [calls EXCEPT ![c] =
           [Send(rec, ProtectedRequest(session, rec.options)) EXCEPT
              !.pc = "awaitProtected", !.nProtected = @ + 1,
              !.csrfToken = NoToken,
              !.options.body = DecorateBody(session, rec.options)]]
  /\ UNCHANGED <<hacSession, started, probe, api, tool>>

(* await this.ensureHacSession() resumes: decorate and send, lines 307-327 *)
SendProtected(c) ==
  /\ calls[c].pc = "ensured"
  /\ LET rec == calls[c]
         session == rec.session[1]
     IN  calls' = [calls EXCEPT ![c] =
           [Send(rec, ProtectedRequest(session, rec.options)) EXCEPT
              !.pc = "awaitProtected", !.nProtected = @ + 1,
              !.csrfToken = NoToken,
              !.options.body = DecorateBody(session, rec.options)]]
  /\ UNCHANGED <<hacSession, started, probe, api, tool>>

\* the cache is not cleared on a login redirect
InvalidateSkipped(cache) == cache

\* hacRequest, line 335: this.hacSession = null
Invalidate(cache) == <<>>

\* every failure of the protected request drops the cached Session
ProtectedResponseClearsOnError(c, resp) ==
  /\ calls[c].pc = "awaitProtected"
  /\ LET rec == calls[c]
     IN  IF IsLoginRedirect(resp)
         THEN IF RetryExhausted(rec.retryCount)
              THEN /\ calls' = [calls EXCEPT ![c] =
                        Throw(rec, Failure(ErrSessionExpired, 0, 0, <<>>))]
                   /\ UNCHANGED hacSession
              ELSE /\ hacSession' = Invalidate(hacSession)
                   /\ calls' = [calls EXCEPT ![c] =
                        BeginEnsure([rec EXCEPT !.retryCount = @ + 1,
                                                !.nInvalidate = @ + 1,
                                                !.session = <<>>],
                                    hacSession')]
         ELSE /\ calls' = [calls EXCEPT ![c] =
                   IF Decode(resp).kind = "error"
                   THEN Throw(rec, Decode(resp))
                   ELSE Return(rec, Decode(resp))]
              /\ hacSession' = IF Decode(resp).kind = "error" THEN <<>>
                               ELSE hacSession
  /\ UNCHANGED <<started, probe, api, tool>>

\* the cache check of the retry reads the cache as it was before the clearing
ProtectedResponseChecksBeforeClearing(c, resp) ==
  /\ calls[c].pc = "awaitProtected"
  /\ LET rec == calls[c]
     IN  IF IsLoginRedirect(resp)
         THEN IF RetryExhausted(rec.retryCount)
              THEN /\ calls' = [calls EXCEPT ![c] =
                        Throw(rec, Failure(ErrSessionExpired, 0, 0, <<>>))]
                   /\ UNCHANGED hacSession
              ELSE /\ hacSession' = Invalidate(hacSession)
                   /\ calls' = [calls EXCEPT ![c] =
                        BeginEnsure([rec EXCEPT !.retryCount = @ + 1,
                                                !.nInvalidate = @ + 1,
                                                !.session = <<>>],
                                    hacSession)]
         ELSE /\ calls' = [calls EXCEPT ![c] =
                   IF Decode(resp).kind = "error"
                   THEN Throw(rec, Decode(resp))
                   ELSE Return(rec, Decode(resp))]
              /\ UNCHANGED hacSession
  /\ UNCHANGED <<started, probe, api, tool>>

(* the protected fetch settles, lines 329-356 *)
ProtectedResponse(c, resp) ==
  /\ calls[c].pc = "awaitProtected"
  /\ LET rec == calls[c]
     IN  IF IsLoginRedirect(resp)
         THEN IF RetryExhausted(rec.retryCount)
              THEN /\ calls' = [calls EXCEPT ![c] =
                        Throw(rec, Failure(ErrSessionExpired, 0, 0, <<>>))]
                   /\ UNCHANGED hacSession
              ELSE /\ hacSession' = Invalidate(hacSession)
                   /\ calls' = [calls EXCEPT ![c] =
                        BeginEnsure([rec EXCEPT !.retryCount = @ + 1,
                                                !.nInvalidate = @ + 1,
                                                !.session = <<>>],
                                    hacSession')]
         ELSE /\ calls' = [calls EXCEPT ![c] =
                   IF Decode(resp).kind = "error"
                   THEN Throw(rec, Decode(resp))
                   ELSE Return(rec, Decode(resp))]
              /\ UNCHANGED hacSession
  /\ UNCHANGED <<started, probe, api, tool>>

\* fetchWithTimeout, lines 117-121: the error a rejected fetch is turned into
FetchError(kind, url) ==
  IF kind = "abort"
  THEN Failure(ErrTimeout, 0, REQUEST_TIMEOUT_MS, url)
  ELSE Failure(ErrNetwork, 0, 0, <<>>)

\* fetchWithTimeout, lines 111-123: controller.abort() can still be called
TimerRuns(timer) == timer = "armed"

(* a round trip rejects: the timer fires after REQUEST_TIMEOUT_MS and aborts
   the fetch (lines 112, 118-119), or the network fails while the response
   or its body is awaited *)
FetchFails(c, kind) ==
  /\ calls[c].pc \in {"awaitRoot", "awaitLoginPage", "awaitPost", "awaitHome",
                      "awaitProtected"}
  /\ kind = "abort" => TimerRuns(calls[c].timer)
  /\ calls' = [calls EXCEPT ![c] =
                 [Throw(calls[c], FetchError(kind, calls[c].sent[1].url))
                    EXCEPT !.overdue = @ \/ kind = "abort"]]
  /\ UNCHANGED <<hacSession, started, probe, api, tool>>

(* fetch settles with the headers of a response whose body the code goes on
   to read (response.text() at lines 242, 287, 340, 349, response.json() at
   line 346): the finally of line 123 clears the timer, the body is pending;
   its arrival is the Response action of the request *)
HeadersArrive(c) ==
  /\ calls[c].pc \in {"awaitRoot", "awaitLoginPage", "awaitHome",
                      "awaitProtected"}
  /\ calls[c].timer = "armed"
  /\ calls' = [calls EXCEPT ![c].timer = "cleared"]
  /\ UNCHANGED <<hacSession, started, probe, api, tool>>

(* REQUEST_TIMEOUT_MS after the request was sent its body is still pending;
   no timer is left to fire *)
BodyOverdue(c) ==
  /\ calls[c].pc \in {"awaitRoot", "awaitLoginPage", "awaitHome",
                      "awaitProtected"}
  /\ calls[c].timer = "cleared"
  /\ ~calls[c].overdue
  /\ calls' = [calls EXCEPT ![c].overdue = TRUE]
  /\ UNCHANGED <<hacSession, started, probe, api, tool>>

----------------------------------------------------------------------------
(* The read API: request and the operations built on it *)

ErrHybrisApi    == "Hybris API error"
ErrNullProperty == "Cannot read properties of null (reading 'pagination')"

\* Buffer.from('admin:nimda').toString('base64') behind 'Basic '
BasicAuth == <<"Basic ", "YWRtaW46bmltZGE=">>

getAuthHeaders ==
  [h \in {"Authorization", "Content-Type", "Accept"} |->
     IF h = "Authorization" THEN BasicAuth ELSE <<"application/json">>]

ReadOps == {"searchProducts", "getOrders", "healthCheck"}

\* the endpoint that the operation hands to request; healthCheck goes
\* through searchProducts('', 1, 0)
OperationEndpoint(op) ==
  IF op = "getOrders"
  THEN <<"/rest/v2/", "electronics", "/users/", "u1", "/orders">>
  ELSE <<"/rest/v2/", "electronics", "/products/search">>

\* the request also carries the cookies of the cached Session
ReadRequestWithSession(endpoint, options) ==
  [kind |-> "read", method |-> options.method, url |-> BaseUrl \o endpoint,
   headers |->
     [h \in DOMAIN getAuthHeaders \cup DOMAIN options.headers \cup
            (IF hacSession # <<>> THEN {"Cookie"} ELSE {}) |->
        IF h \in DOMAIN options.headers THEN options.headers[h]
        ELSE IF h \in DOMAIN getAuthHeaders THEN getAuthHeaders[h]
        ELSE CookieHeader(hacSession[1].cookies)],
   body |-> options.body, redirect |-> "follow"]

\* request, lines 149-158: the fetch it issues
ReadRequest(endpoint, options) ==
  [kind |-> "read", method |-> options.method, url |-> BaseUrl \o endpoint,
   headers |->
     [h \in DOMAIN getAuthHeaders \cup DOMAIN options.headers |->
        IF h \in DOMAIN options.headers THEN options.headers[h]
        ELSE getAuthHeaders[h]],
   body |-> options.body, redirect |-> "follow"]

ReadStatuses == {200, 401, 500}
ReadBodies   == {JsonBody, <<"null">>, LoginPageHtml, TextBody}

\* a Response of the read API
ReadResponses ==
  [status : ReadStatuses, contentType : {CtJson, CtHtml, CtText},
   body : ReadBodies]

\* request, lines 160-176: the outcome for a response
DecodeRead(resp) ==
  IF ~Ok(resp.status)
    THEN Failure(ErrHybrisApi, resp.status, 0, resp.body)
  ELSE IF Includes(resp.contentType, "application/json")
    THEN IF IsJson(resp.body) THEN Success("json", JsonValue(resp.body))
         ELSE Failure(ErrJson, 0, 0, <<>>)
  ELSE IF Includes(resp.contentType, "text/html") /\ Includes(resp.body, "<html")
    THEN Failure(ErrHtml, 0, 0, Substring(resp.body, HtmlPrefixLen))
  ELSE Success("text", resp.body)

Health(healthy, error) ==
  [kind |-> "health", healthy |-> healthy, error |-> error]

\* healthCheck, lines 806-822, for the outcome of its searchProducts call:
\* result.pagination is evaluated inside the try, and throws a TypeError
\* when result is null; totalProducts is left out
healthCheck(outcome) ==
  IF outcome.kind = "error" THEN Health(FALSE, outcome.message)
  ELSE IF outcome.kind = "json" /\ outcome.data = JsonNull
    THEN Health(FALSE, ErrNullProperty)
  ELSE Health(TRUE, "")

\* what the operation makes of the outcome of request
OperationResult(op, outcome) ==
  IF op = "healthCheck" THEN healthCheck(outcome) ELSE outcome

(* an operation of the read API is called and request sends its fetch *)
StartRead(op) ==
  /\ api.pc \in {"idle", "done"}
  /\ api' = [pc |-> "awaitApi", op |-> op,
             sent |-> <<ReadRequest(OperationEndpoint(op), NoOptions)>>,
             outcome |-> <<>>, result |-> <<>>]
  /\ UNCHANGED <<hacSession, calls, started, probe, tool>>

(* the fetch of request settles, lines 160-176 *)
ReadResponse(resp) ==
  /\ api.pc = "awaitApi"
  /\ api' = [api EXCEPT !.pc = "done", !.sent = <<>>,
                        !.outcome = <<DecodeRead(resp)>>,
                        !.result = <<OperationResult(api.op, DecodeRead(resp))>>]
  /\ UNCHANGED <<hacSession, calls, started, probe, tool>>

(* the fetch of request rejects *)
ReadFetchFails(kind) ==
  /\ api.pc = "awaitApi"
  /\ LET outcome == FetchError(kind, api.sent[1].url)
     IN  api' = [api EXCEPT !.pc = "done", !.sent = <<>>,
                            !.outcome = <<outcome>>,
                            !.result = <<OperationResult(api.op, outcome)>>]
  /\ UNCHANGED <<hacSession, calls, started, probe, tool>>

----------------------------------------------------------------------------
(* The tool-call handler of the server, src/src/index.ts *)

ErrUnknownTool    == "Unknown tool: "
ErrNullOutputText == "Cannot read properties of null (reading 'outputText')"

\* two tools that go through hacRequest and a name that the switch does not
\* know
HacTools  == {"flexible_search", "execute_groovy"}
ToolNames == HacTools \cup {"drop_everything"}

\* the value of member key of a parsed one-level object, <<>> for undefined
Member(data, key) ==
  LET at == {i \in 1..Len(data) : i % 2 = 1 /\ data[i] = key}
  IN  IF at = {} \/ data = JsonNull THEN <<>>
      ELSE <<data[(CHOOSE i \in at : \A j \in at : i <= j) + 1]>>

\* executeFlexibleSearch returns what hacRequest returns (line 412);
\* executeGroovyScript reads outputText and executionResult of it (lines
\* 447-450), which throws a TypeError when the response is null; a failure of
\* hacRequest passes through both
OperationOutcome(name, outcome) ==
  IF outcome.kind = "error" \/ name # "execute_groovy" THEN outcome
  ELSE IF outcome.kind = "json" /\ outcome.data = JsonNull
    THEN Failure(ErrNullOutputText, 0, 0, <<>>)
  ELSE IF outcome.kind = "json"
    THEN Success("groovy", [output |-> Member(outcome.data, "\"outputText\""),
                            result |-> Member(outcome.data,
                                              "\"executionResult\"")])
  ELSE Success("groovy", [output |-> <<>>, result |-> <<>>])

\* JSON.stringify of the result of an operation
Stringify(outcome) ==
  IF outcome.kind = "groovy"
    THEN <<"{", "\"output\"", ":">>
           \o (IF outcome.data.output = <<>> THEN <<"\"\"">>
               ELSE outcome.data.output)
           \o (IF outcome.data.result = <<>> THEN <<>>
               ELSE <<",", "\"result\"", ":">> \o outcome.data.result)
           \o <<"}">>
  ELSE IF outcome.kind = "json"
    THEN IF outcome.data = JsonNull THEN <<"null">>
         ELSE <<"{">> \o
              [i \in 1..(2 * Len(outcome.data) - 1) |->
                 IF i % 2 = 1 THEN outcome.data[(i + 1) \div 2]
                 ELSE IF i % 4 = 2 THEN ":" ELSE ","]
              \o <<"}">>
  ELSE <<"\"">> \o outcome.data \o <<"\"">>

\* every outcome is answered as a success
ToolResponseSwallows(outcome) ==
  [isError |-> FALSE, prefix |-> "", message |-> "", status |-> 0, ms |-> 0,
   data |-> IF outcome.kind = "error" THEN <<>> ELSE Stringify(outcome)]

\* the answer of the handler, lines 375-394: the stringified result, or
\* 'Error: ' and the message of the error with isError
ToolResponse(outcome) ==
  IF outcome.kind = "error"
  THEN [isError |-> TRUE, prefix |-> "Error: ", message |-> outcome.message,
        status |-> outcome.status, ms |-> outcome.ms, data |-> outcome.data]
  ELSE [isError |-> FALSE, prefix |-> "", message |-> "", status |-> 0,
        ms |-> 0, data |-> Stringify(outcome)]

\* isError of the answer that the handler gave last
LastAnswer == IF tool.response = <<>> THEN <<>>
              ELSE <<tool.response[1].isError>>

(* the handler is invoked, lines 286-290; a name that the switch does not
   know is answered at once, lines 371-372 and 383-394 *)
CallTool(name) ==
  /\ tool.pc \in {"idle", "returned"}
  /\ name \in HacTools => started < MaxStarted
  /\ tool' =
       IF name \in HacTools
       THEN [pc |-> "running", name |-> name, response |-> <<>>,
             callNo |-> started, previous |-> LastAnswer]
       ELSE [pc |-> "returned", name |-> name,
             response |-> <<ToolResponse(Failure(ErrUnknownTool, 0, 0,
                                                 <<name>>))>>,
             callNo |-> started, previous |-> LastAnswer]
  /\ UNCHANGED <<hacSession, calls, started, probe, api>>

(* the operation of the tool calls hacRequest, lines 324-333 *)
OperationStarts(c) ==
  /\ tool.pc = "running"
  /\ started = tool.callNo
  /\ \E options \in {o \in CallOptions : o.method = "POST"} :
       StartCall(c, options)

(* the awaited operation has settled and the handler answers, lines 375-394 *)
ToolReturns(c) ==
  /\ tool.pc = "running"
  /\ started > tool.callNo
  /\ calls[c].pc = "done"
  /\ tool' = [tool EXCEPT
       !.pc = "returned",
       !.response =
         <<ToolResponse(OperationOutcome(tool.name, calls[c].result[1]))>>]
  /\ UNCHANGED <<hacSession, calls, started, probe, api>>

\* The answers of a backend that follows the HAC protocol or fails it in one
\* way per step: the root redirects to the login page, the login page, the
\* accepted and the rejected credential POST, the landing page, a page
\* without token.
TypicalLoginResponses ==
  { [status |-> 302, location |-> LocLogin, setCookie |-> <<SetCookieAbc>>,
     body |-> ErrorPageHtml],
    [status |-> 200, location |-> NoLocation, setCookie |-> <<>>,
     body |-> LoginPageHtml],
    [status |-> 302, location |-> LocHome, setCookie |-> <<SetCookieDef, SetCookieRoute>>,
     body |-> ErrorPageHtml],
    [status |-> 302, location |-> LocLoginError, setCookie |-> <<>>,
     body |-> ErrorPageHtml],
    [status |-> 200, location |-> NoLocation, setCookie |-> <<>>,
     body |-> HomePageHtml],
    [status |-> 200, location |-> NoLocation, setCookie |-> <<>>,
     body |-> ErrorPageHtml] }

TypicalProtectedResponses ==
  { [status |-> 200, location |-> NoLocation, contentType |-> CtJson,
     body |-> JsonBody],
    [status |-> 302, location |-> LocLogin, contentType |-> CtHtml,
     body |-> LoginPageHtml],
    [status |-> 200, location |-> NoLocation, contentType |-> CtHtml,
     body |-> LoginPageHtml],
    [status |-> 500, location |-> NoLocation, contentType |-> CtText,
     body |-> TextBody] }

FetchFailures == {"abort", "network"}

\* The callers are interchangeable: "A" is the one that calls first.
MayStart(c) == c # "A" => calls["A"].pc # "idle"

\* one step of caller c, its options and the backend's answers drawn from the
\* given sets
Step(c, optionSet, loginResponses, protectedResponses, failures) ==
  \/ \E options \in optionSet : MayStart(c) /\ StartCall(c, options)
  \/ \E resp \in loginResponses : RootResponse(c, resp)
  \/ \E resp \in loginResponses : LoginPageResponse(c, resp)
  \/ \E resp \in loginResponses : PostResponse(c, resp)
  \/ \E resp \in loginResponses : HomeResponse(c, resp)
  \/ SendProtected(c)
  \/ \E resp \in protectedResponses : ProtectedResponse(c, resp)
  \/ \E kind \in failures : FetchFails(c, kind)

FormOptions == {o \in CallOptions : o.method = "POST"}

\* Concurrent callers of one client, the backend answering as in
\* TypicalLoginResponses and TypicalProtectedResponses or not in time.
Next ==
  \E c \in Calls :
    Step(c, FormOptions, TypicalLoginResponses, TypicalProtectedResponses,
         {"abort"})

Spec == Init /\ [][Next]_vars

\* One caller, one call after the other, against every answer of the backend.
NextSeq ==
  Step("A", CallOptions, LoginResponses, ProtectedResponses, FetchFailures)

SpecSeq == Init /\ [][NextSeq]_vars

\* One caller against a backend that may be slow to answer and slow to send
\* the body of an answer.
NextTimed ==
  \/ Step("A", FormOptions, TypicalLoginResponses, TypicalProtectedResponses,
          FetchFailures)
  \/ HeadersArrive("A")
  \/ BodyOverdue("A")

SpecTimed == Init /\ [][NextTimed]_vars

\* Concurrent callers whose logins can end with different Sessions: the
\* backend may or may not set a ROUTE cookie when it accepts the credentials.
RaceLoginResponses ==
  TypicalLoginResponses \cup
  { [status |-> 302, location |-> LocHome, setCookie |-> <<SetCookieDef>>,
     body |-> ErrorPageHtml] }

RaceProtectedResponses ==
  {resp \in TypicalProtectedResponses : resp.contentType # CtText}

NextRace ==
  \E c \in Calls :
    Step(c, FormOptions, RaceLoginResponses, RaceProtectedResponses,
         {"network"})

SpecRace == Init /\ [][NextRace]_vars

\* A step by which a started call goes on: the pending fetch of the call
\* settles, with an answer or with the timeout of fetchWithTimeout, or the
\* event loop resumes the call after await this.ensureHacSession().
Settles(c) ==
  \/ \E resp \in TypicalLoginResponses : RootResponse(c, resp)
  \/ \E resp \in TypicalLoginResponses : LoginPageResponse(c, resp)
  \/ \E resp \in TypicalLoginResponses : PostResponse(c, resp)
  \/ \E resp \in TypicalLoginResponses : HomeResponse(c, resp)
  \/ SendProtected(c)
  \/ \E resp \in TypicalProtectedResponses : ProtectedResponse(c, resp)
  \/ FetchFails(c, "abort")

\* Two callers that make one call each, at any time of the other's call.
NextLive ==
  \E c \in Calls :
    \/ \E options \in FormOptions :
         calls[c].pc = "idle" /\ MayStart(c) /\ StartCall(c, options)
    \/ Settles(c)

\* Concurrent calls whose round trips all come to an end: no fetch stays
\* pending for ever and no resumed continuation is left waiting.
SpecLive ==
  Init /\ [][NextLive]_vars /\ \A c \in Calls : WF_vars(Settles(c))

\* One caller against a backend any of whose answers may set the same cookie
\* name twice.
CookieLoginResponses ==
  TypicalLoginResponses \cup
  {[resp EXCEPT !.setCookie = SetCookieTwice] : resp \in TypicalLoginResponses}

NextCookies ==
  Step("A", FormOptions, CookieLoginResponses, TypicalProtectedResponses,
       FetchFailures)

SpecCookies == Init /\ [][NextCookies]_vars

\* One caller against a backend that may answer the protected request with
\* a redirect to another place than the login page, or with a 302 without
\* Location.
RedirectBody == <<"Found">>
RedirectProtectedResponses ==
  TypicalProtectedResponses \cup
  [status : {302}, location : {NoLocation, LocHome},
   contentType : ContentTypes, body : {RedirectBody, JsonBody, LoginPageHtml}]

NextRedirect ==
  Step("A", FormOptions, TypicalLoginResponses, RedirectProtectedResponses,
       FetchFailures)

SpecRedirect == Init /\ [][NextRedirect]_vars

\* Operations of the read API next to a caller of hacRequest.
NextRead ==
  \/ Step("A", FormOptions, TypicalLoginResponses, TypicalProtectedResponses,
          FetchFailures)
  \/ \E op \in ReadOps : StartRead(op)
  \/ \E resp \in ReadResponses : ReadResponse(resp)
  \/ \E kind \in FetchFailures : ReadFetchFails(kind)

SpecRead == Init /\ [][NextRead]_vars

\* The server handling one tool call after the other; the backend may also
\* answer the protected request with the JSON null or with a script result.
GroovyBody == <<"{", "\"outputText\"", ":", "\"hi\"", "}">>
ToolProtectedResponses ==
  TypicalProtectedResponses \cup
  { [status |-> 200, location |-> NoLocation, contentType |-> CtJson,
     body |-> b] : b \in {<<"null">>, GroovyBody} }

NextTool ==
  \/ \E name \in ToolNames : CallTool(name)
  \/ OperationStarts("A")
  \/ \E resp \in TypicalLoginResponses : RootResponse("A", resp)
  \/ \E resp \in TypicalLoginResponses : LoginPageResponse("A", resp)
  \/ \E resp \in TypicalLoginResponses : PostResponse("A", resp)
  \/ \E resp \in TypicalLoginResponses : HomeResponse("A", resp)
  \/ SendProtected("A")
  \/ \E resp \in ToolProtectedResponses : ProtectedResponse("A", resp)
  \/ \E kind \in FetchFailures : FetchFails("A", kind)
  \/ ToolReturns("A")

SpecTool == Init /\ [][NextTool]_vars

\* One caller handing hacRequest any of CallerOptions.
NextCaller ==
  Step("A", CallerOptions, TypicalLoginResponses, TypicalProtectedResponses,
       FetchFailures)

SpecCaller == Init /\ [][NextCaller]_vars

\* mergeCookies called on its own, with any two cookie lists
InitMerge ==
  /\ hacSession = <<>>
  /\ calls = [c \in Calls |-> IdleCall]
  /\ started = 0
  /\ probe \in [fn : {"mergeCookies"}, existing : CookieLists,
                incoming : CookieLists, applied : {FALSE}, result : {<<>>}]
  /\ api = IdleApi
  /\ tool = IdleTool

ApplyMerge ==
  /\ probe.fn = "mergeCookies"
  /\ ~probe.applied
  /\ probe' = [probe EXCEPT !.applied = TRUE,
                            !.result = mergeCookies(probe.existing,
                                                    probe.incoming)]
  /\ UNCHANGED <<hacSession, calls, started, api, tool>>

NextMerge == ApplyMerge

\* extractCsrfToken on its own, applied to pages of up to MaxTags tags: the
\* meta tag and the hidden input named _csrf in both attribute orders and
\* both quote styles, and tags that carry no token (a meta of another name,
\* a hidden input of another name, an input named _csrf without value).
CsrfTags == [form : {"meta", "input"}, first : {"name", "attr"}, quote : Quotes]
OtherTags ==
  [form : {"other"}, first : {"viewport", "field", "bare"}, quote : {"\""}]
PageTags == UNION {[1..n -> CsrfTags \cup OtherTags] : n \in 0..MaxTags}

\* the token that the tag carries
TagToken(t) ==
  IF t.form = "meta" THEN (IF t.first = "name" THEN "m1" ELSE "m2")
  ELSE (IF t.first = "name" THEN "i1" ELSE "i2")

Attr(name, q, v) == <<name, q, v, q>>

TagHtml(t) ==
  LET q == t.quote
      named == Attr("name=", q, "_csrf")
  IN  IF t.form = "meta"
      THEN IF t.first = "name"
           THEN <<"<meta", " ">> \o named \o <<" ">>
                  \o Attr("content=", q, TagToken(t)) \o <<">">>
           ELSE <<"<meta", " ">> \o Attr("content=", q, TagToken(t))
                  \o <<" ">> \o named \o <<">">>
      ELSE IF t.form = "input"
      THEN IF t.first = "name"
           THEN <<"<input", " ">> \o Attr("type=", q, "hidden") \o <<" ">>
                  \o named \o <<" ">> \o Attr("value=", q, TagToken(t))
                  \o <<">">>
           ELSE <<"<input", " ">> \o Attr("type=", q, "hidden") \o <<" ">>
                  \o Attr("value=", q, TagToken(t)) \o <<" ">> \o named
                  \o <<">">>
      ELSE IF t.first = "viewport"
      THEN <<"<meta", " ">> \o Attr("name=", q, "viewport") \o <<" ">>
             \o Attr("content=", q, "wide") \o <<">">>
      ELSE IF t.first = "field"
      THEN <<"<input", " ">> \o Attr("type=", q, "hidden") \o <<" ">>
             \o Attr("name=", q, "other") \o <<" ">>
             \o Attr("value=", q, "v1") \o <<">">>
      ELSE <<"<input", " ">> \o named \o <<">">>

RECURSIVE PageHtml(_)
PageHtml(tags) ==
  IF tags = <<>> THEN <<"<html", ">">>
  ELSE PageHtml(SubSeq(tags, 1, Len(tags) - 1)) \o TagHtml(tags[Len(tags)])

InitScrape ==
  /\ hacSession = <<>>
  /\ calls = [c \in Calls |-> IdleCall]
  /\ started = 0
  /\ probe \in [fn : {"extractCsrfToken"}, tags : PageTags,
                applied : {FALSE}, result : {NoToken}]
  /\ api = IdleApi
  /\ tool = IdleTool

ApplyScrape ==
  /\ probe.fn = "extractCsrfToken"
  /\ ~probe.applied
  /\ probe' = [probe EXCEPT !.applied = TRUE,
                            !.result = extractCsrfToken(PageHtml(probe.tags))]
  /\ UNCHANGED <<hacSession, calls, started, api, tool>>

NextScrape == ApplyScrape

SpecScrape == InitScrape /\ [][NextScrape]_vars

SpecMerge == InitMerge /\ [][NextMerge]_vars

----------------------------------------------------------------------------
(* Properties *)

\* a protected response that redirects to the login surface
AnsweredWithLoginRedirect(resp) ==
  resp.status = 302 /\ Includes(resp.location, "login")

Expired == <<Failure(ErrSessionExpired, 0, 0, <<>>)>>

LoginPcs == {"awaitRoot", "awaitLoginPage", "awaitPost", "awaitHome"}

\* this step is taken by call c, whose pending fetch settles
Answered(c) ==
  /\ calls[c].pc \in LoginPcs \cup {"awaitProtected"}
  /\ calls'[c] # calls[c]

\* C1: in one logical call the cache is cleared at most once, a login is run
\* at most once after that, at most two protected requests are sent, and a
\* login redirect answering the second protected request ends the call with
\* 'HAC session expired and re-authentication failed' without a further
\* request.
C1_ReauthenticatesAtMostOnce ==
  [][\A c \in Calls :
       /\ calls'[c].nInvalidate <= 1
       /\ calls'[c].nProtected <= 2
       /\ calls'[c].nLogin <= 2
       /\ calls[c].nInvalidate = 1 /\ calls'[c].nInvalidate = 1
            => calls'[c].nLogin = calls[c].nLogin
       /\ Answered(c) =>
            \A resp \in TypicalProtectedResponses :
              ( /\ calls[c].nProtected = 2
                /\ AnsweredWithLoginRedirect(resp)
                /\ ProtectedResponse(c, resp) )
              => /\ calls'[c].pc = "done"
                 /\ calls'[c].result = Expired
                 /\ calls'[c].nHttp = calls[c].nHttp
                 /\ calls'[c].nProtected = 2
     ]_vars

C1_Witness ==
  \E c \in Calls :
    /\ calls[c].pc = "done"
    /\ calls[c].result = Expired
    /\ calls[c].nProtected = 2
    /\ calls[c].nInvalidate = 1

\* C2: when the first protected request of a call is answered with a login
\* redirect and the retried one is not, the call has cleared the cache once,
\* run one login after clearing it (started in the step that cleared it),
\* sent one retried request, and its outcome is the outcome of the retried
\* response.
C2_OneRetryThenOutcome ==
  [][\A c \in Calls : Answered(c) => \A resp \in TypicalProtectedResponses :
       /\ ( /\ calls[c].nProtected = 1
            /\ AnsweredWithLoginRedirect(resp)
            /\ ProtectedResponse(c, resp) )
          => /\ calls'[c].nInvalidate = 1
             /\ hacSession' = <<>>
             /\ calls'[c].nLogin = calls[c].nLogin + 1
             /\ calls'[c].pc = "awaitRoot"
             /\ calls'[c].nProtected = 1
       /\ ( /\ calls[c].nProtected = 2
            /\ ~AnsweredWithLoginRedirect(resp)
            /\ ProtectedResponse(c, resp) )
          => /\ calls'[c].pc = "done"
             /\ calls'[c].result = <<Decode(resp)>>
             /\ calls'[c].nInvalidate = 1
             /\ calls'[c].nProtected = 2
             /\ calls'[c].nLogin = (IF calls[c].hit THEN 1 ELSE 2)
     ]_vars

C2_Witness ==
  \E c \in Calls :
    /\ calls[c].pc = "done"
    /\ calls[c].result = <<Success("json", <<"\"ok\"", "true">>)>>
    /\ calls[c].nInvalidate = 1
    /\ calls[c].nProtected = 2
    /\ calls[c].hit
    /\ calls[c].nLogin = 1

\* C3: a call that finds a Session cached gets that Session from
\* ensureHacSession without any request being sent and without the cache
\* being touched; of the calls made while the cache stays filled, none
\* performs a login.
C3_CachedSessionNoNetwork ==
  [][\A c \in Calls : \A options \in CallOptions :
       (hacSession # <<>> /\ StartCall(c, options))
       => /\ calls'[c].pc = "ensured"
          /\ calls'[c].session = hacSession
          /\ calls'[c].nHttp = 0
          /\ calls'[c].nLogin = 0
          /\ calls'[c].sent = <<>>
          /\ hacSession' = hacSession
     ]_vars

C3_Witness ==
  \E c \in Calls :
    /\ calls[c].pc = "ensured"
    /\ calls[c].hit
    /\ calls[c].nHttp = 0
    /\ calls[c].session = hacSession
    /\ started >= 2

\* a Session as a successful login builds it: cookie entries (name=value
\* parts without attributes) together with a scraped token
CompleteSession(session) ==
  /\ DOMAIN session = {"cookies", "csrfToken"}
  /\ session.csrfToken # NoToken
  /\ \A i \in 1..Len(session.cookies) :
       session.cookies[i] # <<>> /\ ~Includes(session.cookies[i], ";")

\* C4: the cache is always absent or a complete Session; it becomes filled
\* only in the step in which a landing page with a token arrives, and a step
\* in which a login run fails leaves the cache as it was.
C4_SessionCompleteOrAbsent ==
  /\ [](hacSession = <<>>
          \/ (Len(hacSession) = 1 /\ CompleteSession(hacSession[1])))
  /\ [][\A c \in Calls :
          /\ (calls[c].pc \in LoginPcs /\ calls'[c].pc = "done")
               => hacSession' = hacSession
          /\ (hacSession' # hacSession /\ hacSession' # <<>>)
               => \E d \in Calls :
                    /\ calls[d].pc = "awaitHome"
                    /\ calls'[d].pc = "ensured"
                    /\ calls'[d].session = hacSession'
                    /\ calls[d].nHttp >= 3
       ]_vars

C4_Witness ==
  /\ hacSession = <<>>
  /\ \E c \in Calls :
       /\ calls[c].pc = "done"
       /\ calls[c].result = <<Failure(ErrHomeToken, 0, 0, <<>>)>>
       /\ calls[c].nHttp >= 3

\* C5 as claimed: a call that ended with the expiry error leaves the cache
\* absent.
C5_CacheAbsentAfterExpiry ==
  \A c \in Calls :
    (calls[c].pc = "done" /\ calls[c].result = Expired) => hacSession = <<>>

\* C5, amended: a login redirect answering the first protected request of a
\* call clears the cache; a login redirect answering the second one ends the
\* call with the expiry error and leaves the cache as it is, holding the
\* Session of the re-login, which the next call is handed without a login.
C5_InvalidatedOnFirstRedirectOnly ==
  [][\A c \in Calls : Answered(c) => \A resp \in ProtectedResponses :
       ( /\ AnsweredWithLoginRedirect(resp)
         /\ ProtectedResponse(c, resp) )
       => IF calls[c].nProtected = 1
          THEN /\ hacSession' = <<>>
               /\ calls'[c].nInvalidate = 1
          ELSE /\ calls'[c].result = Expired
               /\ hacSession' = hacSession
               /\ hacSession # <<>>
               /\ hacSession = calls[c].session
               /\ \A options \in CallOptions :
                    BeginEnsure([IdleCall EXCEPT !.options = options],
                                hacSession').pc = "ensured"
     ]_vars

C5_Witness ==
  \E c \in Calls :
    /\ calls[c].pc = "done"
    /\ calls[c].result = Expired
    /\ calls[c].nInvalidate = 1
    /\ hacSession # <<>>

\* C6: a protected request is sent only by the step that resumes after
\* ensureHacSession returned a Session, decorated with exactly that Session;
\* it is the only request of that step and the attempt's only protected
\* request; the response is classified in a later step; while a login is
\* running or after it failed, the attempt has sent no protected request.
C6_SessionBeforeSend ==
  [][\A c \in Calls :
       /\ calls'[c].nProtected # calls[c].nProtected /\ calls'[c].pc # "idle"
            /\ calls[c].pc \notin {"idle", "done"}
          => /\ calls[c].pc = "ensured"
             /\ calls[c].session # <<>>
             /\ calls'[c].pc = "awaitProtected"
             /\ calls'[c].nProtected = calls[c].nProtected + 1
             /\ calls'[c].nHttp = calls[c].nHttp + 1
             /\ calls'[c].sent =
                  <<ProtectedRequest(calls[c].session[1], calls[c].options)>>
             /\ calls'[c].result = <<>>
       /\ calls'[c].pc \in LoginPcs
          => calls'[c].nProtected = calls'[c].nInvalidate
       /\ calls'[c].pc = "ensured"
          => calls'[c].nProtected = calls'[c].nInvalidate
               /\ calls'[c].session # <<>>
       /\ calls'[c].pc = "awaitProtected"
          => calls'[c].nProtected = calls'[c].nInvalidate + 1
               /\ calls'[c].sent # <<>> /\ calls'[c].sent[1].kind = "protected"
       /\ (calls[c].pc \in LoginPcs /\ calls'[c].pc = "done")
          => calls'[c].nProtected = calls[c].nProtected
               /\ calls'[c].nHttp = calls[c].nHttp
     ]_vars

C6_Witness ==
  \E c \in Calls :
    /\ calls[c].pc = "done"
    /\ calls[c].result = <<Failure(ErrLoginFailed, 0, 0, <<>>)>>
    /\ calls[c].nInvalidate = 1
    /\ calls[c].nProtected = 1

\* the step of call c writes no Session to the cache; the cache is absent
\* if no other call has been made
CachesNothing(c) ==
  /\ hacSession' = hacSession
  /\ (\A d \in Calls \ {c} : calls[d].pc = "idle") => hacSession' = <<>>

\* the credential POST is answered as the login step requires: status 302
\* with a Location that does not contain 'error'
PostAccepted(resp) ==
  /\ resp.status = 302
  /\ resp.location # <<>>
  /\ ~Includes(resp.location, "error")

LoginRejected == <<Failure(ErrLoginFailed, 0, 0, <<>>)>>

\* C7: when a call that started with a cached Session was redirected to the
\* login surface and the credential POST of its re-login is rejected, the
\* call ends with 'HAC login failed - check credentials', and that re-login
\* is the only login run of the call.
C7_ReloginFailurePropagates ==
  [][\A c \in Calls : Answered(c) => \A resp \in LoginResponses :
       ( /\ calls[c].hit
         /\ calls[c].nInvalidate = 1
         /\ ~PostAccepted(resp)
         /\ PostResponse(c, resp) )
       => /\ calls'[c].pc = "done"
          /\ calls'[c].result = LoginRejected
          /\ calls'[c].result # Expired
          /\ calls'[c].nLogin = 1
          /\ calls'[c].nProtected = 1
     ]_vars

C7_Witness ==
  \E c \in Calls :
    /\ calls[c].pc = "done"
    /\ calls[c].hit
    /\ calls[c].nInvalidate = 1
    /\ calls[c].result = LoginRejected
    /\ calls[c].nLogin = 1

RootIsLoginPage(resp) == ~(resp.status = 302 /\ resp.location # <<>>)

\* C9: a login page without token ends the call with 'Failed to extract CSRF
\* token from HAC login page' before a credential POST is sent; a landing
\* page without token ends it, after the landing GET, with 'Failed to
\* extract CSRF token after HAC login'.  Either way the call caches nothing
\* (the cache is absent unless another call filled it) and sends no further
\* request.
C9_MissingTokenFailsLogin ==
  [][\A c \in Calls : Answered(c) => \A resp \in LoginResponses :
       /\ ( /\ ScrapedToken[resp.body] = NoToken
            /\ \/ RootIsLoginPage(resp) /\ RootResponse(c, resp)
               \/ LoginPageResponse(c, resp) )
          => /\ calls'[c].pc = "done"
             /\ calls'[c].result = <<Failure(ErrLoginPageToken, 0, 0, <<>>)>>
             /\ calls[c].sent[1].kind \in {"root", "loginPage"}
             /\ calls'[c].nHttp = calls[c].nHttp
             /\ calls'[c].nLogin = calls[c].nLogin
             /\ CachesNothing(c)
       /\ ( /\ ScrapedToken[resp.body] = NoToken
            /\ HomeResponse(c, resp) )
          => /\ calls'[c].pc = "done"
             /\ calls'[c].result = <<Failure(ErrHomeToken, 0, 0, <<>>)>>
             /\ calls[c].sent[1].kind = "home"
             /\ calls'[c].nHttp = calls[c].nHttp
             /\ calls'[c].nLogin = calls[c].nLogin
             /\ CachesNothing(c)
     ]_vars

C9_Witness ==
  \E c \in Calls :
    /\ calls[c].pc = "done"
    /\ calls[c].result = <<Failure(ErrLoginPageToken, 0, 0, <<>>)>>
    /\ calls[c].nHttp = 2
    /\ calls[c].nInvalidate = 1
    /\ hacSession = <<>>

\* C10: the token scraped from the login page is sent as the _csrf field of
\* the credential POST and in no other request; the token of the Session
\* that a login caches and returns is the one scraped from the landing page
\* of that login, and it is the token of the anti-forgery header and form
\* field of the protected request sent with that Session.
C10_TokensNotConflated ==
  [][\A c \in Calls :
       /\ Answered(c) => \A resp \in LoginResponses :
            /\ ( /\ calls'[c].pc = "awaitPost"
                 /\ \/ RootIsLoginPage(resp) /\ RootResponse(c, resp)
                    \/ LoginPageResponse(c, resp) )
               => /\ calls'[c].sent[1].body.csrf = ScrapedToken[resp.body]
                  /\ calls'[c].sent[1].kind = "post"
                  /\ "X-CSRF-TOKEN" \notin DOMAIN calls'[c].sent[1].headers
            /\ ( /\ calls'[c].pc = "ensured"
                 /\ HomeResponse(c, resp) )
               => /\ hacSession'[1].csrfToken = ScrapedToken[resp.body]
                  /\ calls'[c].session = hacSession'
       /\ calls'[c].sent # <<>> /\ calls'[c].sent[1].kind \in {"root", "loginPage", "home"}
            => /\ calls'[c].sent[1].body.csrf = NoToken
               /\ "X-CSRF-TOKEN" \notin DOMAIN calls'[c].sent[1].headers
       /\ calls'[c].pc = "awaitProtected"
            => /\ calls'[c].sent[1].headers["X-CSRF-TOKEN"]
                    = <<calls'[c].session[1].csrfToken>>
               /\ calls'[c].options.body.kind = "form"
                    => calls'[c].sent[1].body.csrf
                         = calls'[c].session[1].csrfToken
     ]_vars

C10_Witness ==
  \E c \in Calls :
    /\ calls[c].pc = "ensured"
    /\ calls[c].csrfToken = "tok1"
    /\ hacSession # <<>>
    /\ hacSession[1].csrfToken = "tok2"
    /\ calls[c].session = hacSession

\* the request the call has in flight before and after the step
SentKind(rec) == IF rec.sent = <<>> THEN "none" ELSE rec.sent[1].kind

\* C11: a login run sends the root GET first (without cookies), then, only
\* if the root answers 302 with a Location, the GET of that Location, then
\* the credential POST, then, only if the POST was accepted, the GET of the
\* landing page.  The POST is form-encoded and carries the credential pair,
\* the token of the login page and the cookies collected so far; the landing
\* GET carries the cookies merged up to the POST's response; the Session
\* holds the cookies merged over all hops.
C11_LoginRequestOrder ==
  [][\A c \in Calls :
       \* the order of the requests
       /\ (calls'[c].pc = "awaitRoot" /\ calls[c].pc # "awaitRoot")
            => /\ calls'[c].sent = <<RootGet>>
               /\ calls'[c].cookies = <<>>
               /\ calls[c].pc \in {"idle", "done", "awaitProtected"}
       /\ (calls'[c].pc = "awaitLoginPage" /\ calls[c].pc # "awaitLoginPage")
            => /\ calls[c].pc = "awaitRoot"
               /\ SentKind(calls'[c]) = "loginPage"
               /\ calls'[c].sent[1].method = "GET"
               /\ calls'[c].sent[1].headers["Cookie"]
                    = Join(calls'[c].cookies, "; ")
       /\ (calls'[c].pc = "awaitPost" /\ calls[c].pc # "awaitPost")
            => /\ calls[c].pc \in {"awaitRoot", "awaitLoginPage"}
               /\ SentKind(calls'[c]) = "post"
               /\ calls'[c].sent[1].method = "POST"
               /\ calls'[c].sent[1].headers["Content-Type"]
                    = <<"application/x-www-form-urlencoded">>
               /\ calls'[c].sent[1].headers["Cookie"]
                    = Join(calls'[c].cookies, "; ")
               /\ calls'[c].sent[1].body.kind = "form"
               /\ calls'[c].sent[1].body.j_username = Username
               /\ calls'[c].sent[1].body.j_password = Password
               /\ calls'[c].sent[1].body.csrf = calls'[c].csrfToken
               /\ calls'[c].csrfToken # NoToken
       /\ (calls'[c].pc = "awaitHome" /\ calls[c].pc # "awaitHome")
            => /\ calls[c].pc = "awaitPost"
               /\ SentKind(calls'[c]) = "home"
               /\ calls'[c].sent[1].method = "GET"
               /\ calls'[c].sent[1].headers["Cookie"]
                    = Join(calls'[c].cookies, "; ")
       /\ (calls'[c].sent # calls[c].sent /\ calls'[c].sent # <<>>)
            => calls'[c].pc # calls[c].pc \/ calls[c].pc \in {"idle", "done"}
       \* what each response contributes
       /\ Answered(c) => \A resp \in LoginResponses :
            /\ ( /\ calls[c].pc = "awaitRoot"
                 /\ ~RootIsLoginPage(resp) \/ ScrapedToken[resp.body] # NoToken
                 /\ RootResponse(c, resp) )
                 => /\ calls'[c].cookies = ResponseCookies[resp.setCookie]
                    /\ IF resp.status = 302 /\ resp.location # <<>>
                       THEN /\ calls'[c].pc = "awaitLoginPage"
                            /\ calls'[c].sent[1].url = BaseUrl \o resp.location
                       ELSE calls'[c].pc = "awaitPost"
            /\ ( /\ calls[c].pc = "awaitLoginPage"
                 /\ ScrapedToken[resp.body] # NoToken
                 /\ LoginPageResponse(c, resp) )
                 => /\ calls'[c].pc = "awaitPost"
                    /\ calls'[c].cookies =
                         MergedCookies[calls[c].cookies,
                                       ResponseCookies[resp.setCookie]]
            /\ ( /\ calls[c].pc = "awaitPost"
                 /\ PostResponse(c, resp) )
                 => IF PostAccepted(resp)
                    THEN /\ calls'[c].pc = "awaitHome"
                         /\ calls'[c].cookies =
                              MergedCookies[calls[c].cookies,
                                            ResponseCookies[resp.setCookie]]
                         /\ calls'[c].sent[1].url = BaseUrl \o resp.location
                    ELSE calls'[c].pc = "done" /\ calls'[c].sent = <<>>
            /\ ( /\ calls[c].pc = "awaitHome"
                 /\ ScrapedToken[resp.body] # NoToken
                 /\ HomeResponse(c, resp) )
                 => /\ calls'[c].pc = "ensured"
                    /\ calls'[c].sent = <<>>
                    /\ hacSession'[1].cookies =
                         MergedCookies[calls[c].cookies,
                                       ResponseCookies[resp.setCookie]]
     ]_vars

\* a login that went through all four requests with cookies set on three hops
C11_Witness ==
  \E c \in Calls :
    /\ calls[c].pc = "ensured"
    /\ calls[c].nHttp = 4
    /\ calls[c].session[1].cookies =
         << <<"JSESSIONID", "=", "def">>, <<"ROUTE", "=", "r1">> >>
    /\ calls[c].session[1].csrfToken = "tok2"

\* the names of a cookie list, and the cookie a list binds a name to (the
\* last one with that name)
Names(list) == {CookieName(list[i]) : i \in 1..Len(list)}
UniqueNames(list) ==
  \A i, j \in 1..Len(list) : CookieName(list[i]) = CookieName(list[j]) => i = j
Binding(list, name) ==
  LET at == {i \in 1..Len(list) : CookieName(list[i]) = name}
  IN  list[CHOOSE i \in at : \A j \in at : j <= i]

\* C12: mergeCookies(A, B) has exactly the names of A and of B, each once;
\* a name of B is bound as in B, a name of A alone as in A; for a list A
\* without repeated names, mergeCookies(A, A) = A.
C12_MergeKeepsLatest ==
  (probe.fn = "mergeCookies" /\ probe.applied) =>
    LET A == probe.existing
        B == probe.incoming
        R == probe.result
    IN  /\ Names(R) = Names(A) \cup Names(B)
        /\ UniqueNames(R)
        /\ \A name \in Names(B) : Binding(R, name) = Binding(B, name)
        /\ \A name \in Names(A) \ Names(B) :
             Binding(R, name) = Binding(A, name)
        /\ (A = B /\ UniqueNames(A)) => R = A

\* merging lists with an overlapping and an unrelated name
C12_Witness ==
  /\ probe.fn = "mergeCookies"
  /\ probe.applied
  /\ probe.existing = << <<"JSESSIONID", "=", "abc">>, <<"ROUTE", "=", "r1">> >>
  /\ probe.incoming = << <<"JSESSIONID", "=", "def">>,
                         <<"LANG", "=", "a", "=", "b">> >>
  /\ probe.result = << <<"JSESSIONID", "=", "def">>, <<"ROUTE", "=", "r1">>,
                       <<"LANG", "=", "a", "=", "b">> >>

\* the cookies and the steps of the end-to-end scenario
CookieAbc == <<"JSESSIONID", "=", "abc">>
CookieDef == <<"JSESSIONID", "=", "def">>
RootRedirects(resp) ==
  resp.status = 302 /\ resp.location = LocLogin
    /\ resp.setCookie = <<SetCookieAbc>>
LoginPageServed(resp) == resp.body = LoginPageHtml /\ resp.setCookie = <<>>
CredentialsAccepted(resp) ==
  resp.status = 302 /\ resp.location = LocHome
    /\ resp.setCookie = <<SetCookieDef>>
LandingPageServed(resp) == resp.body = HomePageHtml /\ resp.setCookie = <<>>

\* C13: the root GET answered 302 to the login page with JSESSIONID=abc, the
\* login page carrying tok1 in a hidden input, the credential POST (sent with
\* tok1 and JSESSIONID=abc) answered 302 to /hac/ with JSESSIONID=def, and
\* the landing page carrying tok2 in a meta tag: each step hands over to the
\* next, and the last one caches the Session with the one cookie
\* JSESSIONID=def and the token tok2.
C13_EndToEndLogin ==
  [][\A c \in Calls : Answered(c) => \A resp \in LoginResponses :
       /\ ( /\ RootRedirects(resp)
            /\ RootResponse(c, resp) )
          => /\ calls'[c].pc = "awaitLoginPage"
             /\ calls'[c].cookies = <<CookieAbc>>
             /\ calls'[c].sent[1].url = BaseUrl \o LocLogin
             /\ calls'[c].sent[1].headers["Cookie"] = CookieAbc
       /\ ( /\ LoginPageServed(resp)
            /\ calls[c].cookies = <<CookieAbc>>
            /\ LoginPageResponse(c, resp) )
          => /\ calls'[c].pc = "awaitPost"
             /\ calls'[c].cookies = <<CookieAbc>>
             /\ calls'[c].csrfToken = "tok1"
             /\ calls'[c].sent[1].kind = "post"
             /\ calls'[c].sent[1].body.csrf = "tok1"
             /\ calls'[c].sent[1].headers["Cookie"] = CookieAbc
       /\ ( /\ CredentialsAccepted(resp)
            /\ calls[c].cookies = <<CookieAbc>>
            /\ calls[c].csrfToken = "tok1"
            /\ PostResponse(c, resp) )
          => /\ calls'[c].pc = "awaitHome"
             /\ calls'[c].cookies = <<CookieDef>>
             /\ calls'[c].csrfToken = "tok1"
             /\ calls'[c].sent[1].url = BaseUrl \o LocHome
             /\ calls'[c].sent[1].headers["Cookie"] = CookieDef
       /\ ( /\ LandingPageServed(resp)
            /\ calls[c].cookies = <<CookieDef>>
            /\ calls[c].csrfToken = "tok1"
            /\ HomeResponse(c, resp) )
          => /\ hacSession' =
                  <<[cookies |-> <<CookieDef>>, csrfToken |-> "tok2"]>>
             /\ calls'[c].session = hacSession'
             /\ calls'[c].pc = "ensured"
             /\ \A i \in 1..Len(hacSession'[1].cookies) :
                  ~Includes(hacSession'[1].cookies[i], "abc")
     ]_vars

\* the scenario has run: four requests, the login-page token still at hand
C13_Witness ==
  \E c \in Calls :
    /\ calls[c].pc = "ensured"
    /\ calls[c].nHttp = 4
    /\ calls[c].nLogin = 1
    /\ calls[c].csrfToken = "tok1"
    /\ hacSession = <<[cookies |-> <<CookieDef>>, csrfToken |-> "tok2"]>>
    /\ calls[c].session = hacSession

\* a response with content type text/html whose body contains '<html'
MarkupPage(resp) ==
  Includes(resp.contentType, "text/html") /\ Includes(resp.body, "<html")

\* the status passes the check of line 339
StatusPasses(resp) ==
  (resp.status >= 200 /\ resp.status <= 299) \/ resp.status = 302

\* C14 as claimed: a markup page ends the call with 'Unexpected HTML
\* response', whatever its status.
C14_MarkupAlwaysUnexpected ==
  [][\A c \in Calls : Answered(c) => \A resp \in ProtectedResponses :
       ( /\ MarkupPage(resp)
         /\ ProtectedResponse(c, resp) )
       => /\ calls'[c].pc = "done"
          /\ calls'[c].result[1].message = ErrHtml
     ]_vars

\* C14, amended: a markup page ends the call with 'Unexpected HTML response'
\* and the first 200 characters of the body when its status passes the
\* status check (2xx, or 302 that is not a login redirect); with a status
\* that fails the check the call ends with 'HAC API error', the status and
\* the body; a login redirect is handled as an expired session.  The call
\* never returns the body as data.
C14_MarkupUnexpectedWhenStatusPasses ==
  [][\A c \in Calls : Answered(c) => \A resp \in ProtectedResponses :
       ( /\ MarkupPage(resp)
         /\ ProtectedResponse(c, resp) )
       => /\ IF AnsweredWithLoginRedirect(resp)
             THEN \/ calls'[c].pc = "awaitRoot"
                  \/ calls'[c].pc = "done" /\ calls'[c].result = Expired
             ELSE /\ calls'[c].pc = "done"
                  /\ calls'[c].result =
                       IF StatusPasses(resp)
                       THEN <<Failure(ErrHtml, 0, 0,
                                      IF Len(resp.body) <= HtmlPrefixLen
                                      THEN resp.body
                                      ELSE SubSeq(resp.body, 1, HtmlPrefixLen))>>
                       ELSE <<Failure(ErrApi, resp.status, 0, resp.body)>>
          /\ calls'[c].pc = "done" => calls'[c].result[1].kind = "error"
     ]_vars

\* a page with status 200 was refused
C14_Witness ==
  \E c \in Calls :
    /\ calls[c].pc = "done"
    /\ calls[c].result[1].message = ErrHtml
    /\ calls[c].result[1].data = LoginPageHtml
    /\ calls[c].nProtected = 1

\* C15: a protected response whose status is neither 2xx nor 302 ends the
\* call with 'HAC API error', the status and the undecoded body; the call
\* sends nothing more, starts no login and leaves the cache alone.
C15_FailureStatusIsRemoteError ==
  [][\A c \in Calls : Answered(c) => \A resp \in ProtectedResponses :
       ( /\ ~StatusPasses(resp)
         /\ ProtectedResponse(c, resp) )
       => /\ calls'[c].pc = "done"
          /\ calls'[c].result = <<[kind |-> "error", message |-> ErrApi,
                                   status |-> resp.status, ms |-> 0,
                                   data |-> resp.body]>>
          /\ calls'[c].sent = <<>>
          /\ calls'[c].nHttp = calls[c].nHttp
          /\ calls'[c].nProtected = calls[c].nProtected
          /\ calls'[c].nLogin = calls[c].nLogin
          /\ calls'[c].nInvalidate = calls[c].nInvalidate
          /\ calls'[c].retryCount = calls[c].retryCount
          /\ hacSession' = hacSession
     ]_vars

\* a 500 with a JSON body ended the call, the body undecoded
C15_Witness ==
  \E c \in Calls :
    /\ calls[c].pc = "done"
    /\ calls[c].result[1].message = ErrApi
    /\ calls[c].result[1].status = 500
    /\ calls[c].result[1].data = JsonBody
    /\ calls[c].nProtected = 1
    /\ calls[c].nInvalidate = 0
    /\ hacSession # <<>>

\* the step of call c sends a protected request
SendsProtected(c) ==
  /\ calls[c].pc = "ensured"
  /\ calls'[c].pc = "awaitProtected"
  /\ calls'[c].sent # <<>>

\* the headers that hacRequest sets itself
SessionHeaderNames == {"Cookie", "X-CSRF-TOKEN"}

\* C16 as claimed: every protected request carries the Session's cookies in
\* Cookie and the Session's token in X-CSRF-TOKEN, whatever headers the
\* caller supplied, and the caller's headers of other names unchanged.
C16_SessionHeadersAlwaysSent ==
  [][\A c \in Calls : SendsProtected(c) =>
       LET session == calls[c].session[1]
           given   == calls[c].options.headers
           headers == calls'[c].sent[1].headers
       IN  /\ headers["Cookie"] = Join(session.cookies, "; ")
           /\ headers["X-CSRF-TOKEN"] = <<session.csrfToken>>
           /\ \A h \in DOMAIN given \ SessionHeaderNames :
                h \in DOMAIN headers /\ headers[h] = given[h]
     ]_vars

\* C17: the request of a POST with a URLSearchParams body carries, as its
\* _csrf field, the token of the Session that this attempt got from
\* ensureHacSession, whatever the caller had put there (the caller's object
\* itself is changed); with any other method or body kind the body goes out
\* as the caller gave it.
C17_FormTokenInjected ==
  [][\A c \in Calls : SendsProtected(c) =>
       LET session == calls[c].session[1]
           given   == calls[c].options
       IN  IF given.method = "POST" /\ given.body.kind = "form"
           THEN /\ calls'[c].sent[1].body.kind = "form"
                /\ calls'[c].sent[1].body.csrf = session.csrfToken
                /\ calls'[c].options.body = calls'[c].sent[1].body
           ELSE /\ calls'[c].sent[1].body = given.body
                /\ calls'[c].options = given
     ]_vars

\* the retried request of a caller that had set _csrf itself: the field now
\* holds the token of the re-login's Session
C17_Witness ==
  \E c \in Calls :
    /\ calls[c].pc = "awaitProtected"
    /\ calls[c].options.method = "POST"
    /\ "Accept" \in DOMAIN calls[c].options.headers
    /\ calls[c].options.body.kind = "form"
    /\ calls[c].nProtected = 2
    /\ calls[c].sent[1].body.csrf = calls[c].session[1].csrfToken
    /\ calls[c].sent[1].body.csrf # CallerToken

\* C18 as claimed: a call one of whose round trips exceeded
\* REQUEST_TIMEOUT_MS has ended, with the timeout error naming the bound and
\* the URL, and with no request after the one that timed out.
C18_OverdueEndsWithTimeout ==
  \A c \in Calls :
    (calls[c].overdue /\ calls[c].pc \notin {"awaitRoot", "awaitLoginPage",
                                             "awaitHome", "awaitProtected"})
    => /\ calls[c].pc = "done"
       /\ calls[c].result[1].message = ErrTimeout
       /\ calls[c].result[1].ms = REQUEST_TIMEOUT_MS

\* the call has run its own login and holds the Session of that login
HoldsOwnSession(c) ==
  /\ calls[c].pc \in {"ensured", "awaitProtected"}
  /\ ~calls[c].hit
  /\ calls[c].nLogin = 1
  /\ calls[c].nInvalidate = 0
  /\ calls[c].session # <<>>

\* the login of the call completes in this step
CompletesLogin(c) == calls[c].pc = "awaitHome" /\ calls'[c].pc = "ensured"

\* C19: a call that starts while the cache is empty begins a login of its
\* own whatever the other calls are doing; a login that completes builds its
\* Session from its own cookies and tokens and puts it in the cache in place
\* of whatever is there; the cache changes in no other way except by being
\* cleared; a call sends its request with the Session it holds, and no step
\* of one call touches another call's Session.
C19_LastLoginFillsCache ==
  [][\A c \in Calls :
       /\ (calls[c].pc \in {"idle", "done"} /\ calls'[c] # calls[c]
           /\ hacSession = <<>>)
          => /\ calls'[c].pc = "awaitRoot"
             /\ calls'[c].sent = <<RootGet>>
             /\ calls'[c].nLogin = 1
       /\ CompletesLogin(c)
          => /\ \E resp \in RaceLoginResponses :
                  calls'[c].session =
                    <<NewSession(MergedCookies[calls[c].cookies,
                                               ResponseCookies[resp.setCookie]],
                                 calls[c].csrfToken, ScrapedToken[resp.body])>>
             /\ hacSession' = calls'[c].session
       /\ (hacSession' # hacSession /\ hacSession' # <<>>)
          => \E d \in Calls : CompletesLogin(d)
       /\ SendsProtected(c)
          => /\ calls'[c].session = calls[c].session
             /\ calls'[c].sent[1].headers["Cookie"] =
                  CookieHeader(calls[c].session[1].cookies)
             /\ calls'[c].sent[1].headers["X-CSRF-TOKEN"] =
                  <<calls[c].session[1].csrfToken>>
       /\ calls'[c] # calls[c]
          => \A d \in Calls \ {c} : calls'[d] = calls[d]
    ]_vars

\* both calls found the cache empty and logged in, to different Sessions; B's
\* login completed last (the cache holds its Session), A still holds its own
C19_Witness ==
  /\ HoldsOwnSession("A")
  /\ HoldsOwnSession("B")
  /\ calls["A"].session # calls["B"].session
  /\ hacSession = calls["B"].session

\* C20: a call that clears the cache leaves every other call as it is, its
\* Session and its retryCount included; a call that holds a Session sends
\* its request with that Session's cookies and token also when the cache no
\* longer holds that Session; a login redirect then makes the call clear the
\* cache, log in again and retry if its own retryCount is 0, and fail with
\* the session-expired error otherwise.
C20_InvalidationByOtherCall ==
  [][\A a \in Calls :
       /\ \A b \in Calls \ {a} :
            calls'[b].nInvalidate = calls[b].nInvalidate + 1
            => /\ hacSession' = <<>>
               /\ calls'[a] = calls[a]
       /\ (SendsProtected(a) /\ hacSession # calls[a].session)
          => /\ calls'[a].sent[1].headers["Cookie"] =
                  CookieHeader(calls[a].session[1].cookies)
             /\ calls'[a].sent[1].headers["X-CSRF-TOKEN"] =
                  <<calls[a].session[1].csrfToken>>
             /\ calls'[a].sent[1].body.csrf = calls[a].session[1].csrfToken
             /\ calls'[a].retryCount = calls[a].retryCount
       /\ calls[a].pc = "awaitProtected"
          => \A resp \in RaceProtectedResponses :
               (IsLoginRedirect(resp) /\ ProtectedResponse(a, resp))
               => IF calls[a].retryCount = 0
                  THEN /\ hacSession' = <<>>
                       /\ calls'[a].pc = "awaitRoot"
                       /\ calls'[a].sent = <<RootGet>>
                       /\ calls'[a].retryCount = 1
                       /\ calls'[a].nInvalidate = calls[a].nInvalidate + 1
                       /\ calls'[a].nLogin = calls[a].nLogin + 1
                  ELSE /\ hacSession' = hacSession
                       /\ calls'[a].pc = "done"
                       /\ calls'[a].result[1].message = ErrSessionExpired
    ]_vars

\* B has cleared the cache and is logging in again; A, which got its Session
\* before that, has its first request in flight
C20_Witness ==
  /\ hacSession = <<>>
  /\ calls["B"].nInvalidate = 1
  /\ calls["B"].pc = "awaitRoot"
  /\ calls["A"].pc = "awaitProtected"
  /\ calls["A"].session # <<>>
  /\ calls["A"].retryCount = 0
  /\ calls["A"].nInvalidate = 0

\* the Session that the login of call c builds in this step from the cookies
\* and the landing page of that login
BuildsSession(c, session) ==
  /\ CompletesLogin(c)
  /\ \E resp \in RaceLoginResponses :
       /\ ScrapedToken[resp.body] # NoToken
       /\ session =
            <<NewSession(MergedCookies[calls[c].cookies,
                                       ResponseCookies[resp.setCookie]],
                         calls[c].csrfToken, ScrapedToken[resp.body])>>

\* C21: under every interleaving the cache changes only by being cleared or
\* by receiving the complete Session that one login has just built; a call
\* comes to hold a Session only by building it or by taking the cached one
\* as a whole; a login run starts with no cookies and no token, so what it
\* builds comes from that run alone.
C21_SessionsAreWhole ==
  [][/\ hacSession' # hacSession
        => \/ hacSession' = <<>>
           \/ \E c \in Calls : BuildsSession(c, hacSession')
     /\ \A c \in Calls :
          /\ calls'[c].session # calls[c].session
             => \/ calls'[c].session = <<>>
                \/ BuildsSession(c, calls'[c].session)
                \/ /\ calls'[c].session = hacSession
                   /\ hacSession' = hacSession
          /\ (calls'[c].pc = "awaitRoot" /\ calls[c].pc # "awaitRoot")
             => /\ calls'[c].cookies = <<>>
                /\ calls'[c].csrfToken = NoToken
                /\ calls'[c].session = <<>>
    ]_vars

\* two complete Sessions of two logins at once: the cache holds B's, A holds
\* its own, and they differ in cookies and in token
C21_Witness ==
  /\ HoldsOwnSession("A")
  /\ hacSession # <<>>
  /\ hacSession = calls["B"].session
  /\ hacSession[1].cookies # calls["A"].session[1].cookies
  /\ hacSession[1].csrfToken # calls["A"].session[1].csrfToken

\* C22: a step changes the cache only if it is the completion of a login,
\* which stores the new Session, or the handling of a login redirect, which
\* clears it; a protected request that is answered by anything else than a
\* login redirect, or that times out, ends the call with the decoded result
\* or the error and leaves the cache as it was.
C22_CacheWrittenByLoginAndExpiryOnly ==
  [][\A c \in Calls :
       /\ (calls'[c] # calls[c] /\ hacSession' # hacSession)
          => \/ /\ CompletesLogin(c)
                /\ hacSession' # <<>>
                /\ hacSession' = calls'[c].session
             \/ /\ calls[c].pc = "awaitProtected"
                /\ hacSession' = <<>>
                /\ calls'[c].nInvalidate = calls[c].nInvalidate + 1
                /\ \E resp \in ProtectedResponses :
                     IsLoginRedirect(resp) /\ ProtectedResponse(c, resp)
       /\ calls[c].pc = "awaitProtected"
          => /\ calls'[c].pc = "done" => hacSession' = hacSession
             /\ \A resp \in ProtectedResponses :
                  (~IsLoginRedirect(resp) /\ ProtectedResponse(c, resp))
                  => /\ calls'[c].pc = "done"
                     /\ calls'[c].result = <<Decode(resp)>>
                     /\ hacSession' = hacSession
             /\ FetchFails(c, "abort")
                => /\ calls'[c].result[1].message = ErrTimeout
                   /\ hacSession' = hacSession
    ]_vars

\* a call has ended with the error of an HTML answer and the Session of its
\* login is still cached
C22_Witness ==
  /\ calls["A"].pc = "done"
  /\ calls["A"].result[1].message = ErrHtml
  /\ calls["A"].nInvalidate = 0
  /\ hacSession # <<>>

\* C23: a step of a read-API operation leaves the session cache and every
\* hacRequest call as they are, so it starts no login; the request it sends
\* carries the basic-auth headers and nothing of a Session, and its outcome is
\* determined by the response alone, whether a Session is cached, absent or
\* being created.
C23_ReadApiIgnoresSession ==
  [][/\ api' # api => (hacSession' = hacSession /\ calls' = calls
                       /\ started' = started)
     /\ (api.pc # "awaitApi" /\ api'.pc = "awaitApi")
        => /\ api'.sent[1].headers = getAuthHeaders
           /\ api'.sent[1].url = BaseUrl \o OperationEndpoint(api'.op)
           /\ api'.sent[1].method = "GET"
     /\ api.pc = "awaitApi"
        => \A resp \in ReadResponses :
             ReadResponse(resp) => api'.outcome = <<DecodeRead(resp)>>
    ]_vars

\* a read-API call has succeeded while a hacRequest call is in the middle of
\* its login and no Session is cached
C23_Witness ==
  /\ api.pc = "done"
  /\ api.op = "searchProducts"
  /\ api.outcome[1].kind = "json"
  /\ calls["A"].pc = "awaitPost"
  /\ hacSession = <<>>

\* C29 as claimed: healthCheck ends with a result, never with an error; the
\* result is healthy exactly when its read-API request succeeded, and an
\* unhealthy result carries the message of the request's failure.
C29_HealthMirrorsRequest ==
  (api.op = "healthCheck" /\ api.pc = "done")
  => /\ api.result[1].kind = "health"
     /\ api.result[1].healthy <=> api.outcome[1].kind # "error"
     /\ ~api.result[1].healthy => api.result[1].error = api.outcome[1].message

\* what holds of C29: healthCheck ends with a result, never with an error,
\* and a failed request gives an unhealthy result with the failure's message
C29_HealthNeverRaises ==
  (api.op = "healthCheck" /\ api.pc = "done")
  => /\ api.result[1].kind = "health"
     /\ api.outcome[1].kind = "error"
        => /\ ~api.result[1].healthy
           /\ api.result[1].error = api.outcome[1].message

\* a login run of call c starts in this step
StartsLogin(c) == calls'[c].pc = "awaitRoot" /\ calls[c].pc # "awaitRoot"

\* no call is running
Quiescent == \A c \in Calls : calls[c].pc \in {"idle", "done"}

\* C24: invalidating yields the empty cache and nothing else; a login run
\* starts only in the step in which a call enters ensureHacSession and finds
\* the cache empty, either at the start of the call or in the retry after
\* the call's own invalidation; the step that clears the cache sends only
\* that root GET; while no call is running the only step is the start of a
\* call, so the cache stays empty until then.
C24_LazyRecreation ==
  [][/\ Invalidate(hacSession) = <<>>
     /\ \A c \in Calls :
          /\ StartsLogin(c)
             => \/ /\ calls[c].pc \in {"idle", "done"}
                   /\ hacSession = <<>>
                   /\ started' = started + 1
                \/ /\ calls[c].pc = "awaitProtected"
                   /\ calls'[c].retryCount = calls[c].retryCount + 1
                   /\ calls'[c].nInvalidate = calls[c].nInvalidate + 1
                   /\ hacSession' = <<>>
          /\ calls'[c].nInvalidate = calls[c].nInvalidate + 1
             => /\ calls'[c].nHttp = calls[c].nHttp + 1
                /\ calls'[c].sent = <<RootGet>>
                /\ \A d \in Calls \ {c} : calls'[d] = calls[d]
          /\ calls'[c].nHttp > calls[c].nHttp => calls[c].pc # "done"
     /\ Quiescent
        => /\ hacSession' = hacSession
           /\ started' = started + 1
           /\ \E c \in Calls : calls'[c].pc \notin {"idle", "done"}
    ]_vars

\* the cache was cleared, the re-login failed, the call has ended: nothing
\* runs and the cache is empty
C24_Witness ==
  /\ Quiescent
  /\ calls["A"].pc = "done"
  /\ calls["A"].nInvalidate = 1
  /\ calls["A"].nLogin >= 1
  /\ hacSession = <<>>

RedirectStatus(status) == status >= 300 /\ status <= 399

\* C26 as claimed: a protected response with any redirect status whose
\* Location contains 'login' clears the cache and starts the re-login when
\* retryCount is 0, and ends the call with the session-expired error when
\* retryCount is 1; it never ends the call with the API error or with data.
C26_AnyLoginRedirectIsExpiry ==
  [][\A c \in Calls :
       calls[c].pc = "awaitProtected"
       => \A resp \in ProtectedResponses :
            ( /\ RedirectStatus(resp.status)
              /\ Includes(resp.location, "login")
              /\ ProtectedResponse(c, resp) )
            => IF calls[c].retryCount = 0
               THEN /\ hacSession' = <<>>
                    /\ calls'[c].pc = "awaitRoot"
                    /\ calls'[c].retryCount = 1
               ELSE /\ calls'[c].pc = "done"
                    /\ calls'[c].result[1].message = ErrSessionExpired
    ]_vars

\* the tags of the page that are a meta tag or a hidden input named _csrf
\* with a token
CsrfForms(tags) == {i \in 1..Len(tags) : tags[i].form \in {"meta", "input"}}

\* C27: for a page that holds a meta tag or a hidden input named _csrf, in
\* either attribute order and with either quote, extractCsrfToken returns the
\* token of such a tag (of the only one if there is one); for a page that
\* holds none it returns no token.
C27_TokenScraped ==
  (probe.fn = "extractCsrfToken" /\ probe.applied) =>
    LET forms == CsrfForms(probe.tags)
    IN  /\ forms = {} => probe.result = NoToken
        /\ forms # {} =>
             \E i \in forms : probe.result = TagToken(probe.tags[i])

\* the token of a single-quoted hidden input with value before name, found
\* behind a meta tag of another name
C27_Witness ==
  /\ probe.fn = "extractCsrfToken"
  /\ probe.applied
  /\ Len(probe.tags) = 2
  /\ probe.tags[1] = [form |-> "other", first |-> "viewport", quote |-> "\""]
  /\ probe.tags[2] = [form |-> "input", first |-> "attr", quote |-> "'"]
  /\ probe.result = "i2"

\* C28: when the handler answers a tool that goes through hacRequest, a
\* failure of hacRequest (login, expiry, status, markup, timeout, network)
\* has passed through the operation unchanged and is answered with isError,
\* 'Error: ' and its message, and so is an error raised by the operation; a
\* result is answered without isError; an unknown tool name is answered at
\* once with isError and 'Error: Unknown tool: <name>', without any request;
\* every answer leaves the handler ready for the next call.
C28_FailuresReachTheCaller ==
  [][/\ (tool.pc = "running" /\ tool'.pc # "running")
        => LET outcome == calls["A"].result[1]
               answer  == tool'.response[1]
           IN  /\ tool'.pc = "returned"
               /\ calls["A"].pc = "done"
               /\ outcome.kind = "error"
                  => /\ OperationOutcome(tool.name, outcome) = outcome
                     /\ answer.isError
                     /\ answer.prefix = "Error: "
                     /\ answer.message = outcome.message
                     /\ answer.status = outcome.status
                     /\ answer.data = outcome.data
               /\ answer.isError
                  <=> OperationOutcome(tool.name, outcome).kind = "error"
               /\ answer.isError
                  => answer.message =
                       OperationOutcome(tool.name, outcome).message
     /\ \A name \in ToolNames \ HacTools :
          CallTool(name)
          => /\ tool'.pc = "returned"
             /\ tool'.response[1].isError
             /\ tool'.response[1].prefix = "Error: "
             /\ tool'.response[1].message = ErrUnknownTool
             /\ tool'.response[1].data = <<name>>
             /\ calls' = calls /\ hacSession' = hacSession
     /\ (calls["A"].pc # "done" /\ calls'["A"].pc = "done")
        => /\ tool.pc = "running" /\ tool'.pc = "running"
           /\ calls'["A"].result # <<>>
    ]_vars

\* the server has answered a tool call with an error and has then served
\* the next call, which ran a script, with a result
C28_Witness ==
  /\ tool.pc = "returned"
  /\ tool.name = "execute_groovy"
  /\ ~tool.response[1].isError
  /\ tool.previous = <<TRUE>>
  /\ started = 2

\* C30: the request that a call sends after its own invalidation goes out
\* after a login of that call, with the Session that this login built; its
\* Cookie header and its X-CSRF-TOKEN header are that Session's (for a header
\* that the caller has not set itself, see C16), and the _csrf field of a
\* form POST is that Session's token, although the caller's body still held
\* the token written into it for the first attempt.
C30_RetryCarriesNewSession ==
  [][\A c \in Calls :
       (SendsProtected(c) /\ calls[c].retryCount = 1)
       => LET new   == calls[c].session[1]
              given == calls[c].options
              sent  == calls'[c].sent[1]
          IN  /\ calls[c].nInvalidate = 1
              /\ calls[c].nProtected = 1
              /\ calls[c].nLogin >= 1
              /\ calls'[c].session = <<new>>
              /\ "Cookie" \notin DOMAIN given.headers
                 => sent.headers["Cookie"] = CookieHeader(new.cookies)
              /\ "X-CSRF-TOKEN" \notin DOMAIN given.headers
                 => sent.headers["X-CSRF-TOKEN"] = <<new.csrfToken>>
              /\ (given.method = "POST" /\ given.body.kind = "form")
                 => /\ given.body.csrf # NoToken
                    /\ sent.body.csrf = new.csrfToken
                    /\ calls'[c].options.body.csrf = new.csrfToken
    ]_vars

\* the second attempt of a form POST is in flight with the Session of the
\* re-login, here one whose token is that of the login form
C30_Witness ==
  /\ calls["A"].pc = "awaitProtected"
  /\ calls["A"].retryCount = 1
  /\ calls["A"].nInvalidate = 1
  /\ calls["A"].nProtected = 2
  /\ calls["A"].options.body.kind = "form"
  /\ calls["A"].session[1].csrfToken = "tok1"
  /\ calls["A"].sent[1].body.csrf = "tok1"
  /\ calls["A"].sent[1].headers["X-CSRF-TOKEN"] = <<"tok1">>
  /\ calls["A"].sent[1].headers["Cookie"] =
       CookieHeader(calls["A"].session[1].cookies)

\* C31: the step in which a call clears the cache is also the step in which
\* that call checks the cache again: at the end of it the cache is empty and
\* the call has found it empty and sent the root GET of a login of its own,
\* so no step of another call can come in between; from then on the call
\* comes to hold a Session only by completing that login, from its own
\* cookies and landing page, whatever another call has cached in the
\* meantime, and it sends its retry with that Session.
C31_RetryLogsInItself ==
  [][\A c \in Calls :
       /\ calls'[c].nInvalidate = calls[c].nInvalidate + 1
          => /\ hacSession' = <<>>
             /\ calls'[c].pc = "awaitRoot"
             /\ calls'[c].sent = <<RootGet>>
             /\ calls'[c].session = <<>>
             /\ calls'[c].retryCount = 1
             /\ calls'[c].nLogin = calls[c].nLogin + 1
       /\ (calls[c].retryCount = 1 /\ calls'[c].retryCount = 1
           /\ calls'[c].session # calls[c].session)
          => \/ calls'[c].pc = "done" /\ calls'[c].session = <<>>
             \/ BuildsSession(c, calls'[c].session)
       /\ (calls[c].retryCount = 1 /\ calls'[c].retryCount = 1
           /\ calls'[c].pc = "ensured" /\ calls[c].pc # "ensured")
          => CompletesLogin(c)
       /\ (calls[c].retryCount = 1 /\ SendsProtected(c))
          => /\ calls'[c].session = calls[c].session
             /\ calls'[c].sent[1].headers["Cookie"] =
                  CookieHeader(calls[c].session[1].cookies)
             /\ calls'[c].sent[1].headers["X-CSRF-TOKEN"] =
                  <<calls[c].session[1].csrfToken>>
    ]_vars

\* A has cleared the cache, logged in again and sent its retry with the
\* Session of that login, while the cache holds another Session, which B
\* stored after A's login had completed
C31_Witness ==
  /\ calls["A"].retryCount = 1
  /\ calls["A"].nInvalidate = 1
  /\ calls["A"].pc = "awaitProtected"
  /\ calls["A"].nProtected = 2
  /\ hacSession # <<>>
  /\ hacSession # calls["A"].session
  /\ hacSession = calls["B"].session

\* C32: a call runs the login at most twice and sends at most two protected
\* requests; a login run sends at most four requests (the root GET, the GET
\* of the redirect target, the credential POST, the GET of the landing
\* page), so a call sends at most 2 * (4 + 1) = 10 requests; and if every
\* round trip ends with an answer or with the timeout, every call that has
\* started comes to an end.
C32_CallsTerminate ==
  /\ [][\A c \in Calls :
          /\ calls'[c].nLogin <= 2
          /\ calls'[c].nProtected <= 2
          /\ calls'[c].nHttp <=
               4 * calls'[c].nLogin + calls'[c].nProtected
          /\ calls'[c].nHttp <= 10
          /\ calls'[c].nHttp >= calls[c].nHttp
             => calls'[c].nHttp <= calls[c].nHttp + 1
       ]_vars
  /\ \A c \in Calls :
       (calls[c].pc \notin {"idle", "done"}) ~> (calls[c].pc = "done")

\* a call that has ended after ten requests: two login runs of four requests
\* each and two protected requests
C32_Witness ==
  /\ calls["A"].pc = "done"
  /\ calls["A"].nHttp = 10
  /\ calls["A"].nLogin = 2
  /\ calls["A"].nProtected = 2

\* C33: no two cookies of a cached Session, or of a Session that a call
\* holds, have the same name; the list that the root GET leaves behind may
\* name a cookie twice (it is taken from the response as it is), but the
\* list that the login goes on with after the credential POST does not, and
\* the Session that a completed login stores binds every name once.
C33_SessionCookieNamesUnique ==
  [][/\ hacSession' # <<>> => UniqueNames(hacSession'[1].cookies)
     /\ \A c \in Calls :
          /\ calls'[c].session # <<>>
             => UniqueNames(calls'[c].session[1].cookies)
          /\ calls'[c].pc = "awaitHome" => UniqueNames(calls'[c].cookies)
          /\ CompletesLogin(c)
             => /\ hacSession' # <<>>
                /\ UniqueNames(hacSession'[1].cookies)
    ]_vars

\* the root GET was not redirected (the login took three requests) and an
\* answer of that login set JSESSIONID twice, to def and then to abc; the
\* cached Session binds the name once, to the later value
C33_Witness ==
  /\ calls["A"].pc = "ensured"
  /\ calls["A"].nLogin = 1
  /\ calls["A"].nHttp = 3
  /\ hacSession = calls["A"].session
  /\ hacSession # <<>>
  /\ hacSession[1].cookies = <<CookieAbc>>

\* a 302 that does not point to the login page
BenignRedirect(resp) ==
  resp.status = 302 /\ ~Includes(resp.location, "login")

\* C34: a protected response with status 302 whose Location is absent or
\* does not contain 'login' ends the call in the step in which it arrives:
\* the cache stays as it is, no login is started and no request is sent,
\* retryCount stays, the outcome is not the 'HAC API error', and it is the
\* outcome that the same headers and body would have with status 200.
C34_BenignRedirectIsDecoded ==
  [][\A c \in Calls :
       calls[c].pc = "awaitProtected"
       => \A resp \in RedirectProtectedResponses :
            (BenignRedirect(resp) /\ ProtectedResponse(c, resp))
            => /\ hacSession' = hacSession
               /\ calls'[c].pc = "done"
               /\ calls'[c].sent = <<>>
               /\ calls'[c].retryCount = calls[c].retryCount
               /\ calls'[c].nInvalidate = calls[c].nInvalidate
               /\ calls'[c].nLogin = calls[c].nLogin
               /\ calls'[c].nProtected = calls[c].nProtected
               /\ calls'[c].nHttp = calls[c].nHttp
               /\ calls'[c].result[1].message # ErrApi
               /\ calls'[c].result[1].message # ErrSessionExpired
               /\ calls'[c].result = <<Decode([resp EXCEPT !.status = 200])>>
    ]_vars

\* the first protected request was answered by a 302 that carried the text
\* 'Found': the call has returned that text, the Session is still cached
C34_Witness ==
  /\ calls["A"].pc = "done"
  /\ calls["A"].result = <<Success("text", RedirectBody)>>
  /\ calls["A"].nProtected = 1
  /\ calls["A"].nInvalidate = 0
  /\ calls["A"].retryCount = 0
  /\ hacSession # <<>>

====
